---------------------------- MODULE Spec2Model ----------------------------
(***************************************************************************)
(* Order creation of the e-commerce backend: the HTTP handler              *)
(* (controllers/orderController.ts), the service that validates and prices *)
(* an order (services/orderService.ts), the Zod and Mongoose schemas of    *)
(* models/orders.ts and the repository insert                              *)
(* (repositories/orderRepository.ts); next to it the stock update of the   *)
(* product routes, sanitizeUser, registration and login                    *)
(* (controllers/authController.ts, services/authService.ts) and the        *)
(* admin-only user routes (controllers/userController.ts), the product     *)
(* catalogue routes (public reads, create, update, delete, publish and     *)
(* unpublish), the authenticateToken middleware in front of POST /orders   *)
(* and the refresh of an access token.                                     *)
(*                                                                         *)
(* Numbers.  A JavaScript number x that is an input or a stored field is   *)
(* held as the integer 1000*x (three decimals: 0.125 is 125, a quantity of *)
(* 2 is 2000).  The product of two such numbers and the running sums built *)
(* from products are held as 1000000*x.  Math.round is the nearest integer *)
(* with ties towards +Infinity.  The arithmetic of the model is exact; the *)
(* inputs the specifications draw are chosen so that every argument of     *)
(* Math.round that lies on a half is computed without binary rounding      *)
(* error (0.125 * 100 = 12.5), and on them exact evaluation and IEEE-754   *)
(* double evaluation of the service give the same fields.                  *)
(***************************************************************************)
EXTENDS Integers, Sequences, FiniteSets, TLC

VARIABLES
    calls,    \* calls[c]: one HTTP request POST /orders and where its handler stands
    orders,   \* the orders collection, in insertion order
    now,      \* Date.now(), in ticks
    products, \* the products collection: products[id] is the document of id
    users,    \* the users collection, in insertion order
    reqs,     \* reqs[r]: one HTTP request to a product, user or auth route,
              \* or the middleware's part of the request POST /orders of call r
    sanitized \* the last call of sanitizeUser: its argument and what it returned

vars == <<calls, orders, now, products, users, reqs, sanitized>>

\* What the order routes leave alone, and what the other routes leave alone.
otherVars == <<products, users, reqs, sanitized>>
orderVars == <<calls, orders, now>>

\* --------------------------------------------------------------- bounds
MaxCalls == 2      \* requests in one behaviour
MaxItems == 2      \* items of one submitted order
MaxTime == 1       \* ticks of the clock
MaxRandom == 2     \* values of the random part of an order number
MaxReqs == 2       \* requests to the product, user and auth routes

Calls == 1..MaxCalls

\* An optional key is held as a sequence: <<>> when the client did not send
\* it (the value is undefined), <<v>> when it is v.
Undefined == <<>>
Some(v) == <<v>>
IsDefined(opt) == opt # <<>>
Get(opt) == opt[1]

\* ----------------------------------------------------------- arithmetic
\* Math.round(n / d) for d > 0: the nearest integer, a tie going up.
MathRound(n, d) == (2 * n + d) \div (2 * d)

\* Math.round(x * 100) / 100 for x held at `scale` (1000 or 1000000); the
\* result is held at 1000.
Round2(x, scale) == 10 * MathRound(x, scale \div 100)

calculateItemSubtotal_truncate(quantity, unitPrice) ==
    10 * ((quantity * unitPrice) \div 10000)

\* utils/errors.ts: Math.round(quantity * unitPrice * 100) / 100
calculateItemSubtotal(quantity, unitPrice) ==
    Round2(quantity * unitPrice, 1000000)


\* ------------------------------------------------ models/orders.ts: Zod
\* Types.ObjectId.isValid(val): model ids are short names, and one string
\* that is no ObjectId.
ObjectIdIsValid(val) == val # "not-an-object-id"

\* String.prototype.trim on the names the model uses.
Trim(s) == IF s = " " THEN "" ELSE s

\* Number.isInteger on a number held at 1000.
IsInteger(x) == x % 1000 = 0

OrderItemInputAccepts_quantityMin0(item) ==
    /\ ObjectIdIsValid(item.productId)
    /\ item.productName # ""
    /\ IsInteger(item.quantity) /\ item.quantity >= 0
    /\ item.unitPrice >= 0
    /\ item.taxRate >= 0 /\ item.taxRate <= 1000

\* OrderItemInputZodSchema: productId is an ObjectId, productName has
\* length >= 1 (checked before the trim), quantity is an integer >= 1,
\* unitPrice >= 0, 0 <= taxRate <= 1.
OrderItemInputAccepts(item) ==
    /\ ObjectIdIsValid(item.productId)
    /\ item.productName # ""
    /\ IsInteger(item.quantity) /\ item.quantity >= 1000
    /\ item.unitPrice >= 0
    /\ item.taxRate >= 0 /\ item.taxRate <= 1000

OrderStatuses == {"registered", "paid", "delivered"}

\* CreateOrderZodSchema: whether parse(data) returns rather than throws.
CreateOrderAccepts(data) ==
    /\ ObjectIdIsValid(data.customerId)
    /\ Len(data.items) >= 1
    /\ \A i \in DOMAIN data.items : OrderItemInputAccepts(data.items[i])
    /\ IsDefined(data.discountAmount) => Get(data.discountAmount) >= 0
    /\ IsDefined(data.status) => Get(data.status) \in OrderStatuses

validateCreateOrder_passthrough(data) ==
    [customerId |-> data.customerId,
     items |-> [i \in DOMAIN data.items |->
                   [data.items[i] EXCEPT !.productName = Trim(@)]],
     discountAmount |-> data.discountAmount,
     status |-> data.status,
     paymentMethod |-> data.paymentMethod,
     orderNumber |-> data.orderNumber]

\* validateCreateOrder on accepted data: the parsed value.  z.object keeps
\* the keys of the schema only, in the order and in each item, so a client
\* orderNumber, subtotal, taxAmount or totalAmount is dropped; productName
\* is trimmed.  An optional key the client left out stays
\* undefined here or takes its Zod default, depending on the Zod major
\* version; the Mongoose defaults and `|| 0` below give the same document
\* either way.
validateCreateOrder(data) ==
    [customerId |-> data.customerId,
     items |-> [i \in DOMAIN data.items |->
                   [productId |-> data.items[i].productId,
                    productName |-> Trim(data.items[i].productName),
                    quantity |-> data.items[i].quantity,
                    unitPrice |-> data.items[i].unitPrice,
                    taxRate |-> data.items[i].taxRate]],
     discountAmount |-> data.discountAmount,
     status |-> data.status,
     paymentMethod |-> data.paymentMethod,
     orderNumber |-> Undefined]

\* ------------------------------------------- services/orderService.ts
itemsWithSubtotals_reversed(items) ==
    [i \in DOMAIN items |->
        LET item == items[Len(items) + 1 - i] IN
        [productId |-> item.productId,
         productName |-> item.productName,
         quantity |-> item.quantity,
         unitPrice |-> item.unitPrice,
         taxRate |-> item.taxRate,
         subtotal |-> calculateItemSubtotal(item.quantity, item.unitPrice)]]

\* Step 2: items.map(item => ({...item, subtotal: calculateItemSubtotal(..)}))
itemsWithSubtotals(items) ==
    [i \in DOMAIN items |->
        [productId |-> items[i].productId,
         productName |-> items[i].productName,
         quantity |-> items[i].quantity,
         unitPrice |-> items[i].unitPrice,
         taxRate |-> items[i].taxRate,
         subtotal |-> calculateItemSubtotal(items[i].quantity, items[i].unitPrice)]]

\* The callbacks reduce is given: line 19, item.subtotal; line 20,
\* item.subtotal * item.taxRate.
ItemSubtotal(item) == item.subtotal
ItemTax(item) == item.subtotal * item.taxRate
Term(term, item) ==
    CASE term = "subtotal" -> ItemSubtotal(item)
      [] term = "tax" -> ItemTax(item)

\* Array.prototype.reduce((sum, item) => sum + term(item), 0) over the
\* first n items, left to right.
RECURSIVE ReduceSum(_, _, _)
ReduceSum(term, items, n) ==
    IF n = 0 THEN 0 ELSE ReduceSum(term, items, n - 1) + Term(term, items[n])

RECURSIVE SumRawProducts(_, _)
SumRawProducts(items, n) ==
    IF n = 0 THEN 0
    ELSE SumRawProducts(items, n - 1) + items[n].quantity * items[n].unitPrice

rawSubtotal_unroundedItems(items) ==
    Round2(SumRawProducts(items, Len(items)), 1000000)

\* line 19: the sum of the item subtotals (held at 1000).
rawSubtotal(items) == ReduceSum("subtotal", items, Len(items))

RECURSIVE SumRoundedTaxes(_, _)
SumRoundedTaxes(items, n) ==
    IF n = 0 THEN 0
    ELSE SumRoundedTaxes(items, n - 1)
            + Round2(items[n].subtotal * items[n].taxRate, 1000000)

rawTaxAmount_perItemRounding(items) ==
    1000 * SumRoundedTaxes(items, Len(items))

\* line 20: the sum of subtotal * taxRate (held at 1000000).
rawTaxAmount(items) == ReduceSum("tax", items, Len(items))

\* line 21: validatedInput.discountAmount || 0 (held at 1000).
rawDiscountAmount_byOrderCount(validatedInput) ==
    (IF IsDefined(validatedInput.discountAmount)
     THEN Get(validatedInput.discountAmount)
     ELSE 0) + 1000 * Len(orders)

rawDiscountAmount(validatedInput) ==
    IF IsDefined(validatedInput.discountAmount)
    THEN Get(validatedInput.discountAmount)
    ELSE 0

\* line 22: subtotal + taxAmount - discountAmount (held at 1000000).
rawTotalAmount(subtotal, taxAmount, discountAmount) ==
    1000 * subtotal + taxAmount - 1000 * discountAmount

\* Step 4: the complete order data handed to the repository.
completeOrderData(validatedInput) ==
    LET items == itemsWithSubtotals(validatedInput.items)
        subtotal == rawSubtotal(items)
        taxAmount == rawTaxAmount(items)
        discountAmount == rawDiscountAmount(validatedInput)
        totalAmount == rawTotalAmount(subtotal, taxAmount, discountAmount)
    IN  [customerId |-> validatedInput.customerId,
         items |-> items,
         status |-> validatedInput.status,
         paymentMethod |-> validatedInput.paymentMethod,
         orderNumber |-> validatedInput.orderNumber,
         subtotal |-> Round2(subtotal, 1000),
         taxAmount |-> Round2(taxAmount, 1000000),
         totalAmount |-> Round2(totalAmount, 1000000),
         discountAmount |-> Round2(discountAmount, 1000)]

\* --------------------------------------------- models/orders.ts: Mongoose
\* generateOrderNumber: `ORD-${Date.now().toString(36)}-${random}` in upper
\* case; two calls in the same tick that draw the same random part return
\* the same order number.
generateOrderNumber(timestamp, random) ==
    [prefix |-> "ORD", timestamp |-> timestamp, random |-> random]

Randoms == 1..MaxRandom

NewOrder_noPaymentDefault(orderData, id, timestamp, random) ==
    [_id |-> id,
     orderNumber |-> IF IsDefined(orderData.orderNumber)
                     THEN Get(orderData.orderNumber)
                     ELSE generateOrderNumber(timestamp, random),
     customerId |-> orderData.customerId,
     items |-> orderData.items,
     subtotal |-> orderData.subtotal,
     taxAmount |-> orderData.taxAmount,
     discountAmount |-> orderData.discountAmount,
     totalAmount |-> orderData.totalAmount,
     status |-> IF IsDefined(orderData.status)
                THEN Get(orderData.status) ELSE "registered",
     paymentMethod |-> IF IsDefined(orderData.paymentMethod)
                       THEN Trim(Get(orderData.paymentMethod)) ELSE "",
     registeredAt |-> timestamp]

\* new Order(orderData): the schema's paths, each with its default where
\* orderData leaves it undefined.  _id is the ObjectId the constructor
\* makes, distinct for every document; the model takes the call's number.
NewOrder(orderData, id, timestamp, random) ==
    [_id |-> id,
     orderNumber |-> IF IsDefined(orderData.orderNumber)
                     THEN Get(orderData.orderNumber)
                     ELSE generateOrderNumber(timestamp, random),
     customerId |-> orderData.customerId,
     items |-> orderData.items,
     subtotal |-> orderData.subtotal,
     taxAmount |-> orderData.taxAmount,
     discountAmount |-> orderData.discountAmount,
     totalAmount |-> orderData.totalAmount,
     status |-> IF IsDefined(orderData.status)
                THEN Get(orderData.status) ELSE "registered",
     paymentMethod |-> IF IsDefined(orderData.paymentMethod)
                       THEN Trim(Get(orderData.paymentMethod)) ELSE "invoice",
     registeredAt |-> timestamp]

\* orderItemSchema: the validators of an embedded item.
OrderItemDocValid(item) ==
    /\ item.productName # ""
    /\ item.quantity >= 1000
    /\ item.unitPrice >= 0
    /\ item.taxRate >= 0 /\ item.taxRate <= 1000
    /\ item.subtotal >= 0

OrderDocValid_noTotalMin(doc) ==
    /\ Len(doc.items) > 0
    /\ \A i \in DOMAIN doc.items : OrderItemDocValid(doc.items[i])
    /\ doc.subtotal >= 0
    /\ doc.taxAmount >= 0
    /\ doc.discountAmount >= 0
    /\ doc.status \in OrderStatuses

\* orderSchema: the validators document.save() runs before the insert.
OrderDocValid(doc) ==
    /\ Len(doc.items) > 0
    /\ \A i \in DOMAIN doc.items : OrderItemDocValid(doc.items[i])
    /\ doc.subtotal >= 0
    /\ doc.taxAmount >= 0
    /\ doc.discountAmount >= 0
    /\ doc.totalAmount >= 0
    /\ doc.status \in OrderStatuses

DuplicateKey_noUniqueIndex(collection, doc) == FALSE

\* The unique index on orderNumber: the insert of doc is refused (E11000)
\* when a stored order has its orderNumber.
DuplicateKey(collection, doc) ==
    \E i \in DOMAIN collection : collection[i].orderNumber = doc.orderNumber

\* ------------------------------------------------------ utils/errors.ts
handleServiceError_ok(error) ==
    [status |-> 200, success |-> TRUE, message |-> error, data |-> Undefined]

handleServiceError_leaksError(error) ==
    CASE error = "ZodError" ->
            [status |-> 400, success |-> FALSE,
             message |-> "Validation failed", data |-> Undefined]
      [] OTHER ->
            [status |-> 500, success |-> FALSE, message |-> error, data |-> Undefined]

\* handleServiceError: the response for a thrown error, by its class.
handleServiceError(error) ==
    CASE error \in {"UserNotFoundError", "ProductNotFoundError"} ->
            [status |-> 404, success |-> FALSE, message |-> error, data |-> Undefined]
      [] error \in {"EmailAlreadyExistsError", "ProductAlreadyExistsError"} ->
            [status |-> 409, success |-> FALSE, message |-> error, data |-> Undefined]
      [] error \in {"InsufficientStockError", "InvalidProductStatusError"} ->
            [status |-> 400, success |-> FALSE, message |-> error, data |-> Undefined]
      [] error = "UnauthorizedError" ->
            [status |-> 403, success |-> FALSE, message |-> error, data |-> Undefined]
      [] error = "ValidationError" ->
            [status |-> 400, success |-> FALSE, message |-> error, data |-> Undefined]
      [] error = "ZodError" ->
            [status |-> 400, success |-> FALSE,
             message |-> "Validation failed", data |-> Undefined]
      [] OTHER ->
            [status |-> 500, success |-> FALSE,
             message |-> "Internal server error", data |-> Undefined]

\* ------------------------------------------------------------- requests
Item(productId, productName, quantity, unitPrice, taxRate) ==
    [productId |-> productId, productName |-> productName,
     quantity |-> quantity, unitPrice |-> unitPrice, taxRate |-> taxRate]

\* A body without paymentMethod and without pricing fields of the client's.
Body(customerId, items, discountAmount, status, orderNumber) ==
    [customerId |-> customerId, items |-> items,
     discountAmount |-> discountAmount, status |-> status,
     paymentMethod |-> Undefined, orderNumber |-> orderNumber,
     subtotal |-> Undefined, taxAmount |-> Undefined, totalAmount |-> Undefined]

\* The body with a subtotal, taxAmount and totalAmount the client computed.
WithClientPricing(body, subtotal, taxAmount, totalAmount) ==
    [body EXCEPT !.subtotal = Some(subtotal), !.taxAmount = Some(taxAmount),
                 !.totalAmount = Some(totalAmount)]

\* The item with a subtotal the client computed.
WithClientSubtotal(item, subtotal) ==
    [productId |-> item.productId, productName |-> item.productName,
     quantity |-> item.quantity, unitPrice |-> item.unitPrice,
     taxRate |-> item.taxRate, subtotal |-> subtotal]

\* Items the schema accepts: 2 x 10.00 at 10%, 3 x 0.33 at 10%,
\* 1 x 0.125 untaxed, 1 x 0.04 at 10%.
ValidItems ==
    {Item("p1", "Widget", 2000, 10000, 100),
     Item("p2", "Gadget", 3000, 330, 100),
     Item("p3", "Washer", 1000, 125, 0),
     Item("p4", "Screw", 1000, 40, 100)}

\* Items the schema refuses, and one (" ") it accepts and trims to "".
OddItems ==
    {Item("p1", "Widget", 0, 10000, 100),
     Item("p1", "Widget", 1500, 10000, 100),
     Item("p1", "Widget", 1000, -1000, 100),
     Item("p1", "Widget", 1000, 10000, 1500),
     Item("not-an-object-id", "Widget", 1000, 10000, 100),
     Item("p1", " ", 1000, 10000, 100)}

ItemLists == UNION {[1..n -> ValidItems \cup OddItems] : n \in 0..MaxItems}

\* The bodies of the pricing specification: every list of up to MaxItems
\* items, with no discount or one of 0.046, 1, 25 and -1.
PricingBodies ==
    {Body("u1", items, discountAmount, Undefined, Undefined) :
        items \in ItemLists,
        discountAmount \in {Undefined, Some(46), Some(1000), Some(25000), Some(-1000)}}

ClientOrderNumber == [prefix |-> "MINE", timestamp |-> 0, random |-> 0]

\* The bodies of the concurrent specification.
RequestBodies ==
    {Body("u1", <<Item("p1", "Widget", 2000, 10000, 100)>>,
          Some(1000), Undefined, Undefined),
     Body("u1", <<Item("p1", "Widget", 2000, 10000, 100)>>,
          Undefined, Some("paid"), Some(ClientOrderNumber)),
     Body("u2", <<Item("p4", "Screw", 1000, 40, 100)>>,
          Some(25000), Some("delivered"), Undefined),
     Body("u2", <<>>, Undefined, Some("registered"), Undefined),
     Body("not-an-object-id", <<Item("p1", " ", 1000, 10000, 100)>>,
          Undefined, Some("shipped"), Undefined)}

\* The bodies of the specification of client-supplied fields: an order of
\* 2 x 10.00 and 1 x 0.04 with a discount of 1, as it is and with an
\* orderNumber, with order totals of 0 and with item subtotals of 0 sent by
\* the client; the order with a discount of 25; and an order without items
\* with totals of the client.
ClientBodies ==
    LET widget == Item("p1", "Widget", 2000, 10000, 100)
        screw == Item("p4", "Screw", 1000, 40, 100)
        plain == Body("u1", <<widget, screw>>, Some(1000), Undefined, Undefined)
    IN  {plain,
         Body("u1", <<widget, screw>>, Some(1000), Undefined, Some(ClientOrderNumber)),
         WithClientPricing(plain, 0, 0, 0),
         WithClientPricing(
             Body("u1", <<WithClientSubtotal(widget, 0), WithClientSubtotal(screw, 0)>>,
                  Some(1000), Undefined, Undefined), 10, 0, 10),
         Body("u1", <<widget, screw>>, Some(25000), Undefined, Undefined),
         WithClientPricing(Body("u1", <<>>, Some(1000), Undefined, Undefined),
                           20040, 2000, 21040)}

\* ------------------------------------------------- requests of other routes
Reqs == 1..MaxReqs

Roles == {"admin", "employee", "customer"}

\* A request of a product, user or auth route: the route, the role of
\* req.user, the body or parameters, the document the handler is about to
\* insert, the service operations the handler invoked, every response the
\* handler sent or tried to send, in order, and the cookies it set, in order.
IdleReq ==
    [pc |-> "idle", route |-> "", role |-> "", input |-> Undefined,
     doc |-> Undefined, invoked |-> <<>>, sent |-> <<>>, cookies |-> <<>>]

\* res.status(status).json({success, message, data})
Response(status, success, message, data) ==
    [status |-> status, success |-> success, message |-> message, data |-> data]

\* handleServiceError(error, res) in a handler's catch block.
ErrorResponse(error) == handleServiceError(error)

\* --------------------------------------------------- utils/apiResponse.ts
\* The keys sanitizeUser deletes.
SecretKeys == {"password", "resetPasswordToken", "resetPasswordExpires"}

\* A user with every key of IUser.
FullUser ==
    [_id |-> "u1", email |-> "a@x.io", password |-> "hash", role |-> "customer",
     firstName |-> "Ann", lastName |-> "Lee", isBlocked |-> FALSE,
     orderCount |-> 0, resetPasswordToken |-> "token",
     resetPasswordExpires |-> 1, isDeleted |-> FALSE]

\* The arguments of sanitizeUser: null or undefined, a Mongoose document
\* (it has toObject) and a plain object, with _id, email and role and any
\* of the other keys.
SanitizeArguments ==
    {Undefined} \cup
    {Some([toObject |-> toObject, fields |-> [key \in keys |-> FullUser[key]]]) :
        toObject \in BOOLEAN,
        keys \in {{"_id", "email", "role"} \cup more :
                    more \in SUBSET (DOMAIN FullUser \ {"_id", "email", "role"})}}

sanitizeUser_keepsResetToken(user) ==
    IF ~IsDefined(user) THEN <<>>
    ELSE [key \in DOMAIN Get(user).fields \ {"password"} |-> Get(user).fields[key]]

\* sanitizeUser: {} for no user; otherwise user.toObject() or {...user},
\* both a new object with the keys and values of the user, from which the
\* three keys are deleted.
sanitizeUser(user) ==
    IF ~IsDefined(user) THEN <<>>
    ELSE LET copy == IF Get(user).toObject
                     THEN [key \in DOMAIN Get(user).fields |-> Get(user).fields[key]]
                     ELSE Get(user).fields
         IN  [key \in DOMAIN copy \ SecretKeys |-> copy[key]]

\* A call sanitizeUser(user): what it returned and the argument after the
\* call, which the deletes on the copy leave as it was.
Sanitize(user) ==
    /\ sanitized' = Some([before |-> user, after |-> user,
                          returned |-> sanitizeUser(user)])
    /\ UNCHANGED <<orderVars, products, users, reqs>>

\* ------------------------------------------------------- models/user.ts
\* String.prototype.toLowerCase on the emails the model uses.
ToLowerCase(s) == IF s = "ANN@X.IO" THEN "ann@x.io" ELSE s

\* z.email(): the model has one string that is no email.
IsEmail(s) == s # "not-an-email"

\* The length of the strings the model uses for names and passwords.
StringLength(s) ==
    CASE s = "" -> 0
      [] s = " " -> 1
      [] s = "short" -> 5
      [] OTHER -> 8

\* bcrypt.hash and bcrypt.compare: compare(password, hash) holds exactly
\* when hash was made of password.
BcryptHash(password) == [bcrypt |-> password]
BcryptCompare(password, hash) == hash = BcryptHash(password)

\* CreateUserZodSchema: whether parse(data) returns rather than throws.
\* firstName and lastName have length >= 1, checked before the trim.
CreateUserAccepts(data) ==
    /\ IsEmail(data.email)
    /\ StringLength(data.password) >= 6
    /\ data.role \in Roles
    /\ StringLength(data.firstName) >= 1
    /\ StringLength(data.lastName) >= 1

\* validateCreateUser on accepted data: the email in lower case, the names
\* trimmed, the keys of the schema only.
validateCreateUser(data) ==
    [email |-> ToLowerCase(data.email),
     password |-> data.password,
     role |-> data.role,
     firstName |-> Trim(data.firstName),
     lastName |-> Trim(data.lastName),
     isBlocked |-> data.isBlocked]

\* LoginUserZodSchema and validateLoginUser.
LoginUserAccepts(data) ==
    /\ IsEmail(data.email)
    /\ StringLength(data.password) >= 1
validateLoginUser(data) ==
    [email |-> ToLowerCase(data.email), password |-> data.password]

\* new User(data): the schema's paths with their defaults.
NewUser(data, id) ==
    [_id |-> id,
     email |-> data.email,
     password |-> data.password,
     role |-> data.role,
     firstName |-> data.firstName,
     lastName |-> data.lastName,
     isBlocked |-> IF IsDefined(data.isBlocked) THEN Get(data.isBlocked) ELSE FALSE,
     orderCount |-> 0]

\* userSchema: the validators document.save() runs; the password is a
\* bcrypt hash by then, longer than 6.
UserDocValid(doc) ==
    /\ doc.email # ""
    /\ doc.role \in Roles
    /\ doc.firstName # ""
    /\ doc.lastName # ""

EmailDuplicateKey_noUniqueIndex(collection, doc) == FALSE

\* The unique index on email: the insert of doc is refused (E11000) when a
\* stored user has its email.
EmailDuplicateKey(collection, doc) ==
    \E i \in DOMAIN collection : collection[i].email = doc.email

\* repositories/userRepository.ts findByEmail: User.findOne({email}).
findByEmail(collection, email) ==
    IF \E i \in DOMAIN collection : collection[i].email = email
    THEN Some(collection[CHOOSE i \in DOMAIN collection : collection[i].email = email])
    ELSE Undefined

\* seeds/adminSeeder.ts: the admin the seeder creates in an empty database.
SeededAdmin ==
    [_id |-> 0, email |-> "admin@x.io", password |-> BcryptHash("Admin@123"),
     role |-> "admin", firstName |-> "Super", lastName |-> "Admin",
     isBlocked |-> FALSE, orderCount |-> 0]

\* ------------------------------------------ controllers/authController.ts
sanitizeUserDoc_keepsPassword(user) ==
    [key \in DOMAIN user \ {"resetPasswordToken", "resetPasswordExpires"} |->
        user[key]]

\* The controller's own sanitizeUser on a Mongoose document: toObject() and
\* the three deletes.
sanitizeUserDoc(user) ==
    [key \in DOMAIN user \ SecretKeys |-> user[key]]

\* res.status(status).json({data}) and res.status(status).json({error}).
DataResponse(status, data) ==
    [status |-> status, error |-> Undefined, data |-> Some(data)]
FailureResponse(status, message) ==
    [status |-> status, error |-> Some(message), data |-> Undefined]

\* jwt.sign(payload, secret) and res.cookie(name, token).
Cookie(name, user, secret) ==
    [name |-> name, _id |-> user._id, role |-> user.role, secret |-> secret]

\* registerUser up to the repository's insert: the service validates the
\* body, looks the email up and hashes the password; every error is
\* answered 400 by the controller.
Register(r, body) ==
    /\ reqs[r].pc = "idle"
    /\ LET request == [IdleReq EXCEPT !.route = "POST /auth/register",
                                      !.input = Some(body),
                                      !.invoked = <<"registerUser">>]
       IN
       IF ~CreateUserAccepts(body)
       THEN reqs' = [reqs EXCEPT ![r] =
               [request EXCEPT !.pc = "done",
                   !.sent = <<FailureResponse(400, "ZodError")>>]]
       ELSE IF IsDefined(findByEmail(users, validateCreateUser(body).email))
       THEN reqs' = [reqs EXCEPT ![r] =
               [request EXCEPT !.pc = "done",
                   !.sent = <<FailureResponse(400,
                                 "User with this email already exists")>>]]
       ELSE reqs' = [reqs EXCEPT ![r] =
               [request EXCEPT !.pc = "creating",
                   !.doc = Some(NewUser(
                       [validateCreateUser(body) EXCEPT
                           !.password = BcryptHash(@)], r))]]
    /\ UNCHANGED <<orderVars, products, users, sanitized>>

\* registerUser from the insert on: user.save() validates and inserts in one
\* write; the controller answers 201 with the sanitized user, or 400.
CreateUser(r) ==
    /\ reqs[r].pc = "creating"
    /\ reqs[r].route = "POST /auth/register"
    /\ LET doc == Get(reqs[r].doc) IN
       IF ~UserDocValid(doc)
       THEN /\ reqs' = [reqs EXCEPT ![r].pc = "done",
                  ![r].sent = <<FailureResponse(400, "ValidationError")>>]
            /\ UNCHANGED users
       ELSE IF EmailDuplicateKey(users, doc)
       THEN /\ reqs' = [reqs EXCEPT ![r].pc = "done",
                  ![r].sent = <<FailureResponse(400, "E11000 duplicate key")>>]
            /\ UNCHANGED users
       ELSE /\ users' = Append(users, doc)
            /\ reqs' = [reqs EXCEPT ![r].pc = "done",
                  ![r].sent = <<DataResponse(201, sanitizeUserDoc(doc))>>]
    /\ UNCHANGED <<orderVars, products, sanitized>>

\* services/authService.ts loginUser: the error it throws, or none.
loginUserError(collection, data) ==
    IF ~LoginUserAccepts(data) THEN Some("ZodError")
    ELSE LET user == findByEmail(collection, validateLoginUser(data).email) IN
         IF ~IsDefined(user) THEN Some("Email not Found")
         ELSE IF Get(user).isBlocked THEN Some("User account is blocked")
         ELSE IF ~BcryptCompare(data.password, Get(user).password)
         THEN Some("Invalid password for the email")
         ELSE Undefined

loginCookies_accessOnly(user) ==
    <<Cookie("accessToken", user, "JWT_SECRET")>>

\* The two res.cookie calls of the controller after the service returned.
loginCookies(user) ==
    <<Cookie("accessToken", user, "JWT_SECRET"),
      Cookie("refreshToken", user, "REFRESH_TOKEN_SECRET")>>

\* loginUser: the service reads the user once; the controller sets the two
\* cookies and answers 200 with the sanitized user, or answers 401.
Login(r, body) ==
    /\ reqs[r].pc = "idle"
    /\ LET request == [IdleReq EXCEPT !.route = "POST /auth/login",
                                      !.input = Some(body),
                                      !.invoked = <<"loginUser">>]
           error == loginUserError(users, body)
       IN
       IF IsDefined(error)
       THEN reqs' = [reqs EXCEPT ![r] =
               [request EXCEPT !.pc = "done",
                   !.sent = <<FailureResponse(401, Get(error))>>]]
       ELSE LET user == Get(findByEmail(users, validateLoginUser(body).email)) IN
            reqs' = [reqs EXCEPT ![r] =
               [request EXCEPT !.pc = "done",
                   !.cookies = loginCookies(user),
                   !.sent = <<DataResponse(200, sanitizeUserDoc(user))>>]]
    /\ UNCHANGED <<orderVars, products, users, sanitized>>

\* The bodies of POST /auth/register.
RegisterBody(email, password, role, firstName, isBlocked) ==
    [email |-> email, password |-> password, role |-> role,
     firstName |-> firstName, lastName |-> "Lee", isBlocked |-> isBlocked]
RegisterBodies ==
    {RegisterBody("ann@x.io", "secret-1", "customer", "Ann", Undefined),
     RegisterBody("ANN@X.IO", "secret-2", "employee", "Ann", Undefined),
     RegisterBody("bob@x.io", "secret-1", "customer", "Bob", Some(TRUE)),
     RegisterBody("not-an-email", "secret-1", "customer", "Cy", Undefined),
     RegisterBody("dee@x.io", "short", "customer", "Dee", Undefined),
     RegisterBody("eve@x.io", "secret-1", "customer", " ", Undefined)}

\* The bodies of POST /auth/login.
LoginBody(email, password) == [email |-> email, password |-> password]
LoginBodies ==
    {LoginBody("ann@x.io", "secret-1"),
     LoginBody("ANN@X.IO", "secret-1"),
     LoginBody("ann@x.io", "secret-2"),
     LoginBody("bob@x.io", "secret-1"),
     LoginBody("zed@x.io", "secret-1"),
     LoginBody("not-an-email", "secret-1"),
     LoginBody("admin@x.io", "Admin@123"),
     LoginBody("admin@x.io", "")}

\* ------------------------------------------ controllers/userController.ts
\* The :id parameters of the user routes: the ids of the seeded admin and
\* of the users the requests insert, 9 for an ObjectId of no user and -1
\* for a string that is no ObjectId.
UserIdParams == (0..MaxReqs) \cup {9, -1}
UserIdIsValid(id) == id # -1

\* select("-password")
WithoutPassword(user) == [key \in DOMAIN user \ {"password"} |-> user[key]]

\* User.findById(id): the stored user of that id, if any.
UserById(collection, id) ==
    IF \E i \in DOMAIN collection : collection[i]._id = id
    THEN Some(collection[CHOOSE i \in DOMAIN collection : collection[i]._id = id])
    ELSE Undefined

\* User.findByIdAndUpdate(id, {isBlocked}): the collection afterwards.
SetBlocked(collection, id, isBlocked) ==
    [i \in DOMAIN collection |->
        IF collection[i]._id = id
        THEN [collection[i] EXCEPT !.isBlocked = isBlocked]
        ELSE collection[i]]

\* findAllUsers without filters: the users, newest first, without password.
findAllUsers(collection) ==
    [i \in DOMAIN collection |->
        WithoutPassword(collection[Len(collection) + 1 - i])]

\* The guard every admin-only handler starts with.
Forbidden == Response(403, FALSE, "Admin access required", Undefined)

\* The request r after its handler ran to the end.
Handled(r, route, role, input, invoked, sent) ==
    [reqs EXCEPT ![r] =
        [IdleReq EXCEPT !.pc = "done", !.route = route, !.role = role,
                        !.input = input, !.invoked = invoked, !.sent = sent]]

\* getAllUsers: the guard sends 403 and does not return, so the handler of
\* a non-admin goes on: it calls userService.getAllUsers, then res.json
\* throws (the headers are sent), and handleServiceError in the catch block
\* tries a third response, which throws again.  Of the responses in `sent`
\* the first reaches the client.
GetAllUsers(r, role) ==
    /\ reqs[r].pc = "idle"
    /\ LET success == Response(200, TRUE, "", Some(findAllUsers(users))) IN
       reqs' = IF role # "admin"
               THEN Handled(r, "GET /users", role, Undefined, <<"getAllUsers">>,
                            <<Forbidden, success, ErrorResponse("Error")>>)
               ELSE Handled(r, "GET /users", role, Undefined, <<"getAllUsers">>,
                            <<success>>)
    /\ UNCHANGED <<orderVars, products, users, sanitized>>

\* getUserById: the service throws UserNotFoundError for an id that is no
\* ObjectId or of no user, and returns the sanitized user otherwise.
GetUserById(r, role, id) ==
    /\ reqs[r].pc = "idle"
    /\ LET user == UserById(users, id)
           route == "GET /users/:id"
       IN
       reqs' = IF role # "admin"
               THEN Handled(r, route, role, Some(id), <<>>, <<Forbidden>>)
               ELSE IF ~UserIdIsValid(id) \/ ~IsDefined(user)
               THEN Handled(r, route, role, Some(id), <<"getUserById">>,
                            <<ErrorResponse("UserNotFoundError")>>)
               ELSE Handled(r, route, role, Some(id), <<"getUserById">>,
                            <<Response(200, TRUE, "",
                                Some(sanitizeUser(Some(
                                    [toObject |-> FALSE,
                                     fields |-> WithoutPassword(Get(user))]))))>>)
    /\ UNCHANGED <<orderVars, products, users, sanitized>>

\* createEmployee up to the insert: the service validates the body, sets the
\* role to employee, refuses an email that exists and hashes the password.
CreateEmployee(r, role, body) ==
    /\ reqs[r].pc = "idle"
    /\ LET route == "POST /users/employees" IN
       reqs' = IF role # "admin"
               THEN Handled(r, route, role, Some(body), <<>>, <<Forbidden>>)
               ELSE IF ~CreateUserAccepts(body)
               THEN Handled(r, route, role, Some(body), <<"createEmployee">>,
                            <<ErrorResponse("ZodError")>>)
               ELSE IF IsDefined(findByEmail(users, validateCreateUser(body).email))
               THEN Handled(r, route, role, Some(body), <<"createEmployee">>,
                            <<ErrorResponse("EmailAlreadyExistsError")>>)
               ELSE [reqs EXCEPT ![r] =
                       [IdleReq EXCEPT
                           !.pc = "creating", !.route = route, !.role = role,
                           !.input = Some(body), !.invoked = <<"createEmployee">>,
                           !.doc = Some(NewUser(
                               [validateCreateUser(body) EXCEPT
                                   !.role = "employee",
                                   !.password = BcryptHash(@)], r))]]
    /\ UNCHANGED <<orderVars, products, users, sanitized>>

\* createEmployee from the insert on: a document the schema or the unique
\* index refuses is answered 500, the inserted one 201.
CreateEmployeeSave(r) ==
    /\ reqs[r].pc = "creating"
    /\ reqs[r].route = "POST /users/employees"
    /\ LET doc == Get(reqs[r].doc) IN
       IF ~UserDocValid(doc)
       THEN /\ reqs' = [reqs EXCEPT ![r].pc = "done",
                  ![r].sent = <<ErrorResponse("MongooseValidationError")>>]
            /\ UNCHANGED users
       ELSE IF EmailDuplicateKey(users, doc)
       THEN /\ reqs' = [reqs EXCEPT ![r].pc = "done",
                  ![r].sent = <<ErrorResponse("MongoServerError")>>]
            /\ UNCHANGED users
       ELSE /\ users' = Append(users, doc)
            /\ reqs' = [reqs EXCEPT ![r].pc = "done",
                  ![r].sent = <<Response(201, TRUE, "Employee created successfully",
                      Some(sanitizeUser(Some([toObject |-> TRUE, fields |-> doc]))))>>]
    /\ UNCHANGED <<orderVars, products, sanitized>>

\* blockUser and unblockUser: findByIdAndUpdate throws a CastError for an id
\* that is no ObjectId (answered 500) and returns null for an id of no user
\* (answered 404); otherwise isBlocked is written and the user returned.
SetUserBlocked(r, role, id, isBlocked) ==
    /\ reqs[r].pc = "idle"
    /\ LET route == IF isBlocked THEN "PATCH /users/:id/block"
                                 ELSE "PATCH /users/:id/unblock"
           service == IF isBlocked THEN "blockUserById" ELSE "unblockUserById"
           message == IF isBlocked THEN "User blocked successfully"
                                   ELSE "User unblocked successfully"
       IN
       IF role # "admin"
       THEN /\ reqs' = Handled(r, route, role, Some(id), <<>>, <<Forbidden>>)
            /\ UNCHANGED users
       ELSE IF ~UserIdIsValid(id)
       THEN /\ reqs' = Handled(r, route, role, Some(id), <<service>>,
                               <<ErrorResponse("CastError")>>)
            /\ UNCHANGED users
       ELSE IF ~IsDefined(UserById(users, id))
       THEN /\ reqs' = Handled(r, route, role, Some(id), <<service>>,
                               <<ErrorResponse("UserNotFoundError")>>)
            /\ UNCHANGED users
       ELSE /\ users' = SetBlocked(users, id, isBlocked)
            /\ reqs' = Handled(r, route, role, Some(id), <<service>>,
                  <<Response(200, TRUE, message,
                        Some(WithoutPassword(Get(UserById(users', id)))))>>)
    /\ UNCHANGED <<orderVars, products, sanitized>>

BlockUser(r, role, id) == SetUserBlocked(r, role, id, TRUE)
UnblockUser(r, role, id) == SetUserBlocked(r, role, id, FALSE)

\* deleteUser: softDeleteUser updates isDeleted and deletedAt, which are no
\* paths of userSchema, so the stored user keeps its fields; the user is
\* returned sanitized.
DeleteUser(r, role, id) ==
    /\ reqs[r].pc = "idle"
    /\ LET route == "DELETE /users/:id"
           user == UserById(users, id)
       IN
       reqs' = IF role # "admin"
               THEN Handled(r, route, role, Some(id), <<>>, <<Forbidden>>)
               ELSE IF ~UserIdIsValid(id)
               THEN Handled(r, route, role, Some(id), <<"deleteUserById">>,
                            <<ErrorResponse("CastError")>>)
               ELSE IF ~IsDefined(user)
               THEN Handled(r, route, role, Some(id), <<"deleteUserById">>,
                            <<ErrorResponse("UserNotFoundError")>>)
               ELSE Handled(r, route, role, Some(id), <<"deleteUserById">>,
                            <<Response(200, TRUE, "User deleted successfully",
                                Some(sanitizeUser(Some(
                                    [toObject |-> TRUE,
                                     fields |-> WithoutPassword(Get(user))]))))>>)
    /\ UNCHANGED <<orderVars, products, users, sanitized>>

\* The bodies of POST /users/employees.
EmployeeBodies ==
    {RegisterBody("emp@x.io", "secret-1", "customer", "Emp", Undefined),
     RegisterBody("admin@x.io", "secret-1", "employee", "Al", Undefined),
     RegisterBody("fay@x.io", "secret-1", "employee", " ", Undefined),
     RegisterBody("not-an-email", "secret-1", "employee", "Gus", Undefined)}

\* --------------------------------------------------- product stock update
\* The products of the model; "p9" is the id of no product.
ProductIds == {"p1", "p4"}

\* Stock amounts a client sends, held at 1000: -1, 0, 1.5 and 2.
StockAmounts == {-1000, 0, 1500, 2000}

\* Math.max(0, Math.floor(x)) for x held at 1000.
FloorMax0(x) ==
    LET floor == 1000 * (x \div 1000) IN IF floor > 0 THEN floor ELSE 0

\* repositories/productRepository.ts updateProductStock: the collection after
\* findOneAndUpdate({_id: id}, {$set: {stockAmount: max(0, floor(..))}}).
updateProductStock(collection, id, stockAmount) ==
    [collection EXCEPT ![id].stockAmount = FloorMax0(stockAmount)]

\* services/productService.ts updateProductStockService: the error it throws,
\* or none.
updateProductStockError(collection, id, stockAmount, userRole) ==
    IF stockAmount < 0 THEN Some("ValidationError")
    ELSE IF id \notin DOMAIN collection THEN Some("ProductNotFoundError")
    ELSE IF userRole \notin {"admin", "employee"} THEN Some("UnauthorizedError")
    ELSE Undefined

\* controllers/productController.ts updateProductStock, for an authenticated
\* request PATCH /products/:id/stock.
UpdateProductStock(r, id, stockAmount, userRole) ==
    LET error == updateProductStockError(products, id, stockAmount, userRole)
        input == [id |-> id, stockAmount |-> stockAmount]
    IN  /\ reqs[r].pc = "idle"
        /\ IF IsDefined(error)
           THEN /\ reqs' = [reqs EXCEPT ![r] =
                      [IdleReq EXCEPT
                          !.pc = "done", !.route = "PATCH /products/:id/stock",
                          !.role = userRole, !.input = Some(input),
                          !.invoked = <<"updateProductStockService">>,
                          !.sent = <<ErrorResponse(Get(error))>>]]
                /\ UNCHANGED products
           ELSE /\ products' = updateProductStock(products, id, stockAmount)
                /\ reqs' = [reqs EXCEPT ![r] =
                      [IdleReq EXCEPT
                          !.pc = "done", !.route = "PATCH /products/:id/stock",
                          !.role = userRole, !.input = Some(input),
                          !.invoked = <<"updateProductStockService">>,
                          !.sent = <<Response(200, TRUE,
                                        "Product stock updated successfully",
                                        Some(products'[id]))>>]]
        /\ UNCHANGED <<orderVars, users, sanitized>>

\* ------------------------------------------------------ product catalogue
\* A product document: the paths of productSchema the catalogue routes read
\* or write.
Product(id, name, status, createdBy) ==
    [_id |-> id, name |-> name, status |-> status, isDeleted |-> FALSE,
     createdBy |-> createdBy, stockAmount |-> 0]

\* req.user of an authenticated request: the _id and role of the token.
Caller(id, role) == [_id |-> id, role |-> role]

\* An employee and a customer, created after the seeded admin.
Employee ==
    [_id |-> 8, email |-> "emp@x.io", password |-> BcryptHash("secret-1"),
     role |-> "employee", firstName |-> "Emma", lastName |-> "Lee",
     isBlocked |-> FALSE, orderCount |-> 0]
Customer ==
    [_id |-> 7, email |-> "cus@x.io", password |-> BcryptHash("secret-1"),
     role |-> "customer", firstName |-> "Carl", lastName |-> "Lee",
     isBlocked |-> FALSE, orderCount |-> 0]

\* The callers of the protected product routes.
Callers == {Caller(u._id, u.role) : u \in {SeededAdmin, Employee, Customer}}

\* The _id of the product request r inserts.
NewProductId(r) == "n" \o ToString(r)

\* The :id parameters of the product routes.
ProductIdParams ==
    ProductIds \cup {NewProductId(r) : r \in Reqs} \cup {"p9", "not-an-object-id"}

\* The non-deleted products of the collection: every query of the
\* repository has isDeleted: false.
NotDeleted(collection) ==
    {collection[id] : id \in {i \in DOMAIN collection : ~collection[i].isDeleted}}

\* populate("createdBy", "firstName lastName email"): the user's _id and the
\* three paths, or null for a user that is not stored.
populate(product, userCollection) ==
    LET user == UserById(userCollection, product.createdBy) IN
    [product EXCEPT !.createdBy =
        IF IsDefined(user)
        THEN Some([_id |-> Get(user)._id, firstName |-> Get(user).firstName,
                   lastName |-> Get(user).lastName, email |-> Get(user).email])
        ELSE Undefined]

\* repositories/productRepository.ts findProductById:
\* Product.findOne({_id: id, isDeleted: false}).populate(..), or null.
findProductById(collection, userCollection, id) ==
    IF ObjectIdIsValid(id) /\ id \in DOMAIN collection /\ ~collection[id].isDeleted
    THEN Some(populate(collection[id], userCollection))
    ELSE Undefined

\* ProductSearchZodSchema on the status key of req.query.
ProductSearchAccepts(searchParams) ==
    ~IsDefined(searchParams.status)
    \/ Get(searchParams.status) \in {"draft", "published"}

\* repositories/productRepository.ts findAllProducts: the query is
\* {isDeleted: false}, with status only when searchParams has one.  The
\* products of the first page, as a set.
findAllProducts(collection, userCollection, searchParams) ==
    {populate(p, userCollection) :
        p \in {q \in NotDeleted(collection) :
                 IsDefined(searchParams.status) => q.status = Get(searchParams.status)}}

\* controllers/productController.ts getProductById, a public route:
\* getProductByIdService throws ProductNotFoundError on null.
GetProductById(r, id) ==
    /\ reqs[r].pc = "idle"
    /\ LET product == findProductById(products, users, id) IN
       reqs' = Handled(r, "GET /products/:id", "", Some([id |-> id]),
                       <<"getProductByIdService">>,
                       IF IsDefined(product)
                       THEN <<Response(200, TRUE, "Product retrieved successfully",
                                       product)>>
                       ELSE <<ErrorResponse("ProductNotFoundError")>>)
    /\ UNCHANGED <<orderVars, products, users, sanitized>>

\* controllers/productController.ts getAllProducts, a public route: the keys
\* of req.query other than the paging ones are the search parameters.
GetAllProducts(r, searchParams) ==
    /\ reqs[r].pc = "idle"
    /\ reqs' = Handled(r, "GET /products", "", Some(searchParams),
                       <<"getAllProductsService">>,
                       IF ProductSearchAccepts(searchParams)
                       THEN <<Response(200, TRUE, "Products retrieved successfully",
                                 Some(findAllProducts(products, users, searchParams)))>>
                       ELSE <<ErrorResponse("ZodError")>>)
    /\ UNCHANGED <<orderVars, products, users, sanitized>>

\* The queries of GET /products.
SearchParams == {[status |-> s] : s \in {Undefined, Some("draft"),
                                         Some("published"), Some("archived")}}

\* CreateProductZodSchema: name and description of length >= 1, basePrice
\* >= 0, status draft or published when present, createdBy an ObjectId.
CreateProductAccepts(data) ==
    /\ StringLength(data.name) >= 1
    /\ StringLength(data.description) >= 1
    /\ data.basePrice >= 0
    /\ IsDefined(data.status) => Get(data.status) \in {"draft", "published"}
    /\ IsDefined(data.createdBy) /\ UserIdIsValid(Get(data.createdBy))

\* validateCreateProduct on accepted data: name trimmed, status defaulted.
validateCreateProduct(data) ==
    [name |-> Trim(data.name),
     status |-> IF IsDefined(data.status) THEN Get(data.status) ELSE "draft",
     createdBy |-> Get(data.createdBy)]

\* Product.findOne({name, isDeleted: false}) of createProductService.
findOneByName(collection, name) ==
    \E p \in NotDeleted(collection) : p.name = name

\* productSchema: the validators document.save() runs on the new product;
\* an empty name is not a `required` name.
ProductDocValid(doc) ==
    /\ doc.name # ""
    /\ doc.status \in {"draft", "published"}

\* The insert of doc: productSchema has no unique index, on name or else.
insertProduct(collection, doc) ==
    [id \in DOMAIN collection \cup {doc._id} |->
        IF id = doc._id THEN doc ELSE collection[id]]

\* controllers/productController.ts createProduct up to the repository's
\* save: the role guard, then createProductService validates the body, puts
\* the caller in createdBy and looks the name up.
CreateProduct(r, caller, body) ==
    /\ reqs[r].pc = "idle"
    /\ LET request == [IdleReq EXCEPT !.route = "POST /products",
                                      !.role = caller.role,
                                      !.input = Some(body)]
           called == [request EXCEPT !.invoked = <<"createProductService">>]
       IN
       IF caller.role \notin {"admin", "employee"}
       THEN reqs' = [reqs EXCEPT ![r] =
               [request EXCEPT !.pc = "done",
                   !.sent = <<Response(403, FALSE,
                                 "You don't have permission to create products",
                                 Undefined)>>]]
       ELSE IF ~CreateProductAccepts(body)
       THEN reqs' = [reqs EXCEPT ![r] =
               [called EXCEPT !.pc = "done", !.sent = <<ErrorResponse("ZodError")>>]]
       ELSE IF findOneByName(products, validateCreateProduct(body).name)
       THEN reqs' = [reqs EXCEPT ![r] =
               [called EXCEPT !.pc = "done",
                   !.sent = <<ErrorResponse("ProductAlreadyExistsError")>>]]
       ELSE reqs' = [reqs EXCEPT ![r] =
               [called EXCEPT !.pc = "creating",
                   !.doc = Some(LET data == validateCreateProduct(body) IN
                                Product(NewProductId(r), data.name, data.status,
                                        caller._id))]]
    /\ UNCHANGED <<orderVars, products, users, sanitized>>

\* createProduct from the repository's save on: product.save() validates and
\* inserts; the controller answers 201 with the product.
CreateProductSave(r) ==
    /\ reqs[r].pc = "creating"
    /\ reqs[r].route = "POST /products"
    /\ LET doc == Get(reqs[r].doc) IN
       IF ~ProductDocValid(doc)
       THEN /\ reqs' = [reqs EXCEPT ![r].pc = "done",
                  ![r].sent = <<ErrorResponse("MongooseValidationError")>>]
            /\ UNCHANGED products
       ELSE /\ products' = insertProduct(products, doc)
            /\ reqs' = [reqs EXCEPT ![r].pc = "done",
                  ![r].sent = <<Response(201, TRUE, "Product created successfully",
                                  Some(doc))>>]
    /\ UNCHANGED <<orderVars, users, sanitized>>

\* The bodies of POST /products.
ProductBody(name, status, createdBy) ==
    [name |-> name, description |-> "text", basePrice |-> 10000,
     status |-> status, createdBy |-> createdBy]
ProductBodies ==
    {ProductBody("Lamp", Undefined, Some(0)),
     ProductBody("Sofa", Undefined, Some(0)),
     ProductBody("Sofa", Some("published"), Some(7)),
     ProductBody(" ", Undefined, Some(0)),
     ProductBody("", Undefined, Some(0)),
     ProductBody("Sofa", Undefined, Undefined)}

\* The check the update, delete, publish and unpublish services make after
\* findProductById: the error thrown, or none.  createdBy is the populated
\* user, and null when the user is not stored.
productPermissionError(existingProduct, userId, userRole) ==
    IF userRole = "admin" THEN Undefined
    ELSE IF ~IsDefined(existingProduct.createdBy) THEN Some("TypeError")
    ELSE IF Get(existingProduct.createdBy)._id # userId THEN Some("UnauthorizedError")
    ELSE Undefined

\* The error of a service that finds the product and checks the permission.
productServiceError(collection, userCollection, id, caller) ==
    LET existingProduct == findProductById(collection, userCollection, id) IN
    IF ~IsDefined(existingProduct) THEN Some("ProductNotFoundError")
    ELSE productPermissionError(Get(existingProduct), caller._id, caller.role)

\* repositories/productRepository.ts deleteProductById:
\* findOneAndUpdate({_id, isDeleted: false}, {$set: {isDeleted: true, ..}}).
deleteProductById(collection, id) ==
    [collection EXCEPT ![id].isDeleted = TRUE]

\* controllers/productController.ts deleteProduct with deleteProductService.
DeleteProduct(r, caller, id) ==
    /\ reqs[r].pc = "idle"
    /\ LET error == productServiceError(products, users, id, caller)
           input == Some([id |-> id, userId |-> caller._id])
       IN
       IF IsDefined(error)
       THEN /\ reqs' = Handled(r, "DELETE /products/:id", caller.role, input,
                               <<"deleteProductService">>,
                               <<ErrorResponse(Get(error))>>)
            /\ UNCHANGED products
       ELSE /\ products' = deleteProductById(products, id)
            /\ reqs' = Handled(r, "DELETE /products/:id", caller.role, input,
                               <<"deleteProductService">>,
                               <<Response(200, TRUE, "Product deleted successfully",
                                          Some(products'[id]))>>)
    /\ UNCHANGED <<orderVars, users, sanitized>>

\* repositories/productRepository.ts publishProduct and unpublishProduct:
\* findOneAndUpdate({_id, isDeleted: false}, {$set: {status}}).
setProductStatus(collection, id, status) ==
    [collection EXCEPT ![id].status = status]

\* publishProductService and unpublishProductService: after the permission
\* check, a product that has the status already is refused.
SetProductStatus(r, caller, id, route, service, status, message) ==
    /\ reqs[r].pc = "idle"
    /\ LET error == productServiceError(products, users, id, caller)
           input == Some([id |-> id, userId |-> caller._id])
       IN
       IF IsDefined(error)
       THEN /\ reqs' = Handled(r, route, caller.role, input, <<service>>,
                               <<ErrorResponse(Get(error))>>)
            /\ UNCHANGED products
       ELSE IF products[id].status = status
       THEN /\ reqs' = Handled(r, route, caller.role, input, <<service>>,
                               <<ErrorResponse("InvalidProductStatusError")>>)
            /\ UNCHANGED products
       ELSE /\ products' = setProductStatus(products, id, status)
            /\ reqs' = Handled(r, route, caller.role, input, <<service>>,
                               <<Response(200, TRUE, message,
                                          Some(populate(products'[id], users)))>>)
    /\ UNCHANGED <<orderVars, users, sanitized>>

\* controllers/productController.ts publishProduct and unpublishProduct.
PublishProduct(r, caller, id) ==
    SetProductStatus(r, caller, id, "PATCH /products/:id/publish",
                     "publishProductService", "published",
                     "Product published successfully")
UnpublishProduct(r, caller, id) ==
    SetProductStatus(r, caller, id, "PATCH /products/:id/unpublish",
                     "unpublishProductService", "draft",
                     "Product unpublished successfully")

\* UpdateProductZodSchema: every key optional; a name has length >= 1.
UpdateProductAccepts(data) ==
    /\ IsDefined(data.name) => StringLength(Get(data.name)) >= 1
    /\ IsDefined(data.status) => Get(data.status) \in {"draft", "published"}

\* repositories/productRepository.ts updateProductById:
\* findOneAndUpdate({_id, isDeleted: false}, {$set: updateData}); the name
\* is not looked up in the collection.
updateProductById(collection, id, updateData) ==
    [collection EXCEPT
        ![id].name = IF IsDefined(updateData.name)
                     THEN Trim(Get(updateData.name)) ELSE @,
        ![id].status = IF IsDefined(updateData.status)
                       THEN Get(updateData.status) ELSE @]

\* controllers/productController.ts updateProduct with updateProductService:
\* validation, findProductById, the permission check, the update with
\* runValidators (an empty name is refused).
UpdateProduct(r, caller, id, body) ==
    /\ reqs[r].pc = "idle"
    /\ LET error == IF ~UpdateProductAccepts(body) THEN Some("ZodError")
                    ELSE productServiceError(products, users, id, caller)
           input == Some([id |-> id, userId |-> caller._id, body |-> body])
       IN
       IF IsDefined(error)
       THEN /\ reqs' = Handled(r, "PUT /products/:id", caller.role, input,
                               <<"updateProductService">>,
                               <<ErrorResponse(Get(error))>>)
            /\ UNCHANGED products
       ELSE IF IsDefined(body.name) /\ Trim(Get(body.name)) = ""
       THEN /\ reqs' = Handled(r, "PUT /products/:id", caller.role, input,
                               <<"updateProductService">>,
                               <<ErrorResponse("MongooseValidationError")>>)
            /\ UNCHANGED products
       ELSE /\ products' = updateProductById(products, id, body)
            /\ reqs' = Handled(r, "PUT /products/:id", caller.role, input,
                               <<"updateProductService">>,
                               <<Response(200, TRUE, "Product updated successfully",
                                          Some(populate(products'[id], users)))>>)
    /\ UNCHANGED <<orderVars, users, sanitized>>

\* The bodies of PUT /products/:id.
UpdateBody(name, status) == [name |-> name, status |-> status]
UpdateBodies ==
    {UpdateBody(Some("Desk"), Undefined),
     UpdateBody(Some("Sofa"), Undefined),
     UpdateBody(Undefined, Some("published")),
     UpdateBody(Some(" "), Undefined),
     UpdateBody(Some(""), Undefined)}

\* ---------------------------------------------------------------- state
Idle == [pc |-> "idle", input |-> Undefined, doc |-> Undefined, res |-> Undefined]

\* The collections hold two products with the schema's default stock of 0,
\* the seeded admin and no order; no request has arrived.
Init ==
    /\ calls = [c \in Calls |-> Idle]
    /\ orders = <<>>
    /\ now = 0
    /\ products = [id \in ProductIds |-> [_id |-> id, stockAmount |-> 0]]
    /\ users = <<SeededAdmin>>
    /\ reqs = [r \in Reqs |-> IdleReq]
    /\ sanitized = Undefined

\* orderData with the client's subtotal, taxAmount and totalAmount where the
\* body has them.
ClientPriced(body, orderData) ==
    [orderData EXCEPT
        !.subtotal = IF IsDefined(body.subtotal) THEN Get(body.subtotal) ELSE @,
        !.taxAmount = IF IsDefined(body.taxAmount) THEN Get(body.taxAmount) ELSE @,
        !.totalAmount = IF IsDefined(body.totalAmount) THEN Get(body.totalAmount) ELSE @]

Request_trustsClient(c, body) ==
    /\ calls[c].pc = "idle"
    /\ IF ~CreateOrderAccepts(body)
       THEN calls' = [calls EXCEPT ![c] =
                [pc |-> "done", input |-> Some(body), doc |-> Undefined,
                 res |-> Some(handleServiceError("ZodError"))]]
       ELSE \E random \in Randoms :
              calls' = [calls EXCEPT ![c] =
                [pc |-> "saving", input |-> Some(body),
                 doc |-> Some(NewOrder(
                            ClientPriced(body, completeOrderData(validateCreateOrder(body))),
                            c, now, random)),
                 res |-> Undefined]]
    /\ UNCHANGED <<orders, now, otherVars>>

\* controllers/orderController.ts createOrder up to the repository's await:
\* orderService.createOrder validates req.body (a ZodError is rethrown and
\* answered by handleServiceError), prices it, and the repository constructs
\* the document.
Request(c, body) ==
    /\ calls[c].pc = "idle"
    /\ IF ~CreateOrderAccepts(body)
       THEN calls' = [calls EXCEPT ![c] =
                [pc |-> "done", input |-> Some(body), doc |-> Undefined,
                 res |-> Some(handleServiceError("ZodError"))]]
       ELSE \E random \in Randoms :
              calls' = [calls EXCEPT ![c] =
                [pc |-> "saving", input |-> Some(body),
                 doc |-> Some(NewOrder(completeOrderData(validateCreateOrder(body)),
                                       c, now, random)),
                 res |-> Undefined]]
    /\ UNCHANGED <<orders, now, otherVars>>

Save_writeBeforeValidate(c) ==
    /\ calls[c].pc = "saving"
    /\ LET doc == Get(calls[c].doc) IN
       /\ orders' = Append(orders, doc)
       /\ IF ~OrderDocValid(doc) \/ DuplicateKey(orders, doc)
          THEN calls' = [calls EXCEPT ![c].pc = "done",
                  ![c].res = Some(handleServiceError("MongoServerError"))]
          ELSE calls' = [calls EXCEPT ![c].pc = "saved"]
    /\ UNCHANGED <<now, otherVars>>

Save_upsert(c) ==
    /\ calls[c].pc = "saving"
    /\ LET doc == Get(calls[c].doc) IN
       IF ~OrderDocValid(doc)
       THEN /\ calls' = [calls EXCEPT ![c].pc = "done",
                  ![c].res = Some(handleServiceError("MongooseValidationError"))]
            /\ UNCHANGED orders
       ELSE IF DuplicateKey(orders, doc)
       THEN /\ orders' = [i \in DOMAIN orders |->
                            IF orders[i].orderNumber = doc.orderNumber
                            THEN doc ELSE orders[i]]
            /\ calls' = [calls EXCEPT ![c].pc = "saved"]
       ELSE /\ orders' = Append(orders, doc)
            /\ calls' = [calls EXCEPT ![c].pc = "saved"]
    /\ UNCHANGED <<now, otherVars>>

Save_decrementStock(c) ==
    /\ calls[c].pc = "saving"
    /\ LET doc == Get(calls[c].doc) IN
       IF ~OrderDocValid(doc) \/ DuplicateKey(orders, doc)
       THEN /\ calls' = [calls EXCEPT ![c].pc = "done",
                  ![c].res = Some(handleServiceError("MongoServerError"))]
            /\ UNCHANGED <<orders, products>>
       ELSE /\ orders' = Append(orders, doc)
            /\ calls' = [calls EXCEPT ![c].pc = "saved"]
            /\ products' = [id \in DOMAIN products |->
                  IF \E i \in DOMAIN doc.items : doc.items[i].productId = id
                  THEN [products[id] EXCEPT !.stockAmount = @ - 1000]
                  ELSE products[id]]
    /\ UNCHANGED <<now, users, reqs, sanitized>>

\* orderSchema customerId, ref "User": the _id of the user an ObjectId string
\* names; "u7" is the string of the customer's _id, the other strings name
\* no user.
CustomerUserId(customerId) == IF customerId = "u7" THEN 7 ELSE 9

Save_countsOrder(c) ==
    /\ calls[c].pc = "saving"
    /\ LET doc == Get(calls[c].doc) IN
       IF ~OrderDocValid(doc) \/ DuplicateKey(orders, doc)
       THEN /\ calls' = [calls EXCEPT ![c].pc = "done",
                  ![c].res = Some(handleServiceError("MongoServerError"))]
            /\ UNCHANGED <<orders, users>>
       ELSE /\ orders' = Append(orders, doc)
            /\ calls' = [calls EXCEPT ![c].pc = "saved"]
            /\ users' = [i \in DOMAIN users |->
                  IF users[i]._id = CustomerUserId(doc.customerId)
                  THEN [users[i] EXCEPT !.orderCount = @ + 1]
                  ELSE users[i]]
    /\ UNCHANGED <<now, products, reqs, sanitized>>

Save_retry(c) ==
    /\ calls[c].pc = "saving"
    /\ LET doc == Get(calls[c].doc) IN
       IF ~OrderDocValid(doc)
       THEN /\ calls' = [calls EXCEPT ![c].pc = "done",
                  ![c].res = Some(handleServiceError("MongooseValidationError"))]
            /\ UNCHANGED orders
       ELSE IF DuplicateKey(orders, doc)
       THEN /\ \E random \in Randoms :
                 calls' = [calls EXCEPT ![c].doc =
                    Some(NewOrder(completeOrderData(
                                     validateCreateOrder(Get(calls[c].input))),
                                  c, now, random))]
            /\ UNCHANGED orders
       ELSE /\ orders' = Append(orders, doc)
            /\ calls' = [calls EXCEPT ![c].pc = "saved"]
    /\ UNCHANGED <<now, otherVars>>

\* repositories/orderRepository.ts: order.save() validates the document and
\* inserts it in one write; either failure is rethrown to the controller,
\* whose handleServiceError answers it.
Save(c) ==
    /\ calls[c].pc = "saving"
    /\ LET doc == Get(calls[c].doc) IN
       IF ~OrderDocValid(doc)
       THEN /\ calls' = [calls EXCEPT ![c].pc = "done",
                  ![c].res = Some(handleServiceError("MongooseValidationError"))]
            /\ UNCHANGED orders
       ELSE IF DuplicateKey(orders, doc)
       THEN /\ calls' = [calls EXCEPT ![c].pc = "done",
                  ![c].res = Some(handleServiceError("MongoServerError"))]
            /\ UNCHANGED orders
       ELSE /\ orders' = Append(orders, doc)
            /\ calls' = [calls EXCEPT ![c].pc = "saved"]
    /\ UNCHANGED <<now, otherVars>>

\* controllers/orderController.ts: res.status(201).json({success, message, data}).
Respond(c) ==
    /\ calls[c].pc = "saved"
    /\ calls' = [calls EXCEPT ![c].pc = "done",
          ![c].res = Some([status |-> 201, success |-> TRUE,
                           message |-> "Order created successfully",
                           data |-> calls[c].doc])]
    /\ UNCHANGED <<orders, now, otherVars>>

\* Time passes.
Tick ==
    /\ now < MaxTime
    /\ now' = now + 1
    /\ UNCHANGED <<calls, orders, otherVars>>

Next ==
    \/ \E c \in Calls, body \in RequestBodies : Request(c, body)
    \/ \E c \in Calls : Save(c)
    \/ \E c \in Calls : Respond(c)
    \/ Tick

\* Concurrent requests over a few bodies.
Spec == Init /\ [][Next]_vars

NextPricing ==
    \/ \E body \in PricingBodies : Request(1, body)
    \/ Save(1)
    \/ Respond(1)

\* One request over every body of PricingBodies.
SpecPricing == Init /\ [][NextPricing]_vars

NextClient ==
    \/ \E c \in Calls, body \in ClientBodies : Request(c, body)
    \/ \E c \in Calls : Save(c)
    \/ \E c \in Calls : Respond(c)

\* Concurrent requests over bodies that differ in the fields a client may
\* add to them.
SpecClient == Init /\ [][NextClient]_vars

NextAuth ==
    \/ \E r \in Reqs, body \in RegisterBodies : Register(r, body)
    \/ \E r \in Reqs : CreateUser(r)
    \/ \E r \in Reqs, body \in LoginBodies : Login(r, body)

\* Concurrent requests of POST /auth/register and POST /auth/login.
SpecAuth == Init /\ [][NextAuth]_vars

NextUsers ==
    \/ \E r \in Reqs, role \in Roles : GetAllUsers(r, role)
    \/ \E r \in Reqs, role \in Roles, id \in UserIdParams : GetUserById(r, role, id)
    \/ \E r \in Reqs, role \in Roles, body \in EmployeeBodies :
          CreateEmployee(r, role, body)
    \/ \E r \in Reqs : CreateEmployeeSave(r)
    \/ \E r \in Reqs, role \in Roles, id \in UserIdParams : BlockUser(r, role, id)
    \/ \E r \in Reqs, role \in Roles, id \in UserIdParams : UnblockUser(r, role, id)
    \/ \E r \in Reqs, role \in Roles, id \in UserIdParams : DeleteUser(r, role, id)

\* Concurrent authenticated requests of the admin-only user routes.
SpecUsers == Init /\ [][NextUsers]_vars

NextSanitize == \E user \in SanitizeArguments : Sanitize(user)

\* Calls of sanitizeUser over SanitizeArguments.
SpecSanitize == Init /\ [][NextSanitize]_vars

NextStock ==
    \/ \E body \in RequestBodies : Request(1, body)
    \/ Save(1)
    \/ Respond(1)
    \/ \E r \in Reqs, id \in ProductIds \cup {"p9"},
          stockAmount \in StockAmounts, userRole \in Roles :
            UpdateProductStock(r, id, stockAmount, userRole)

\* One order request next to stock updates of the products it names.
SpecStock == Init /\ [][NextStock]_vars

\* The catalogue after the admin created an employee and a customer, the
\* employee created the draft "Lamp" and the admin created and published
\* "Desk".
InitCatalog ==
    /\ calls = [c \in Calls |-> Idle]
    /\ orders = <<>>
    /\ now = 0
    /\ products = [id \in ProductIds |->
                     IF id = "p1" THEN Product(id, "Lamp", "draft", Employee._id)
                     ELSE Product(id, "Desk", "published", SeededAdmin._id)]
    /\ users = <<SeededAdmin, Customer, Employee>>
    /\ reqs = [r \in Reqs |-> IdleReq]
    /\ sanitized = Undefined

NextCatalog ==
    \/ \E r \in Reqs, id \in ProductIdParams : GetProductById(r, id)
    \/ \E r \in Reqs, searchParams \in SearchParams : GetAllProducts(r, searchParams)
    \/ \E r \in Reqs, caller \in Callers, body \in ProductBodies :
          CreateProduct(r, caller, body)
    \/ \E r \in Reqs : CreateProductSave(r)
    \/ \E r \in Reqs, caller \in Callers, id \in ProductIdParams,
          body \in UpdateBodies : UpdateProduct(r, caller, id, body)
    \/ \E r \in Reqs, caller \in Callers, id \in ProductIdParams :
          DeleteProduct(r, caller, id)
    \/ \E r \in Reqs, caller \in Callers, id \in ProductIdParams :
          PublishProduct(r, caller, id)
    \/ \E r \in Reqs, caller \in Callers, id \in ProductIdParams :
          UnpublishProduct(r, caller, id)

\* Concurrent requests of the public and the protected product routes.
SpecCatalog == InitCatalog /\ [][NextCatalog]_vars

\* jwt.sign(payload, secret, {expiresIn}): the payload, the signing secret
\* and the time from which the token is expired.
AccessToken(id, role, secret, exp) ==
    [_id |-> id, role |-> role, secret |-> secret, exp |-> exp]

jwtVerify_anySecret(token, secret, timestamp) == timestamp < token.exp

\* jwt.verify(token, secret) at a time: the signature is of the secret and
\* the token is not expired.
jwtVerify(token, secret, timestamp) ==
    token.secret = secret /\ timestamp < token.exp

\* The accessToken cookie of a request: none, a token that does not expire
\* in the model, one that expires at time 1, one that was expired from the
\* start, and a token that was signed with another secret.
AccessCookies ==
    {Undefined,
     Some(AccessToken(0, "admin", "JWT_SECRET", MaxTime + 1)),
     Some(AccessToken(0, "admin", "JWT_SECRET", 1)),
     Some(AccessToken(0, "admin", "JWT_SECRET", 0)),
     Some(AccessToken(0, "admin", "REFRESH_TOKEN_SECRET", MaxTime + 1))}

\* res.status(status).json({success: false, error}) of the middleware.
AuthFailure(status, error) == [status |-> status, success |-> FALSE, error |-> error]

\* middleware/authMiddleware.ts authenticateToken in front of POST /orders:
\* without the cookie 401, with a token jwt.verify accepts req.user is set
\* and next() called, otherwise 403.
AuthenticateToken(c, cookie) ==
    /\ reqs[c].pc = "idle"
    /\ LET request == [IdleReq EXCEPT !.route = "POST /orders",
                                      !.cookies = <<cookie>>]
       IN
       IF ~IsDefined(cookie)
       THEN reqs' = [reqs EXCEPT ![c] =
               [request EXCEPT !.pc = "done",
                   !.sent = <<AuthFailure(401, "Unauthorized - No token provided")>>]]
       ELSE IF jwtVerify(Get(cookie), "JWT_SECRET", now)
       THEN reqs' = [reqs EXCEPT ![c] =
               [request EXCEPT !.pc = "next", !.role = Get(cookie).role,
                               !.invoked = <<"createOrder">>]]
       ELSE reqs' = [reqs EXCEPT ![c] =
               [request EXCEPT !.pc = "done",
                   !.sent = <<AuthFailure(403, "Unauthorized - Invalid token")>>]]
    /\ UNCHANGED <<orderVars, products, users, sanitized>>

\* routes/orderRoutes.ts: createOrder runs when authenticateToken called
\* next().
CreateOrderRoute(c, body) ==
    /\ reqs[c].pc = "next"
    /\ Request(c, body)

\* The bodies behind the middleware: an order the service accepts and one it
\* refuses.
AuthBodies ==
    {Body("u1", <<Item("p1", "Widget", 2000, 10000, 100)>>,
          Some(1000), Undefined, Undefined),
     Body("u2", <<>>, Undefined, Some("registered"), Undefined)}

NextOrderAuth ==
    \/ \E c \in Calls, cookie \in AccessCookies : AuthenticateToken(c, cookie)
    \/ \E c \in Calls, body \in AuthBodies : CreateOrderRoute(c, body)
    \/ \E c \in Calls : Save(c)
    \/ \E c \in Calls : Respond(c)
    \/ Tick

\* Concurrent requests of POST /orders through authenticateToken.
SpecOrderAuth == Init /\ [][NextOrderAuth]_vars

\* services/authService.ts refreshToken: jwt.verify(token,
\* REFRESH_TOKEN_SECRET), then jwt.sign of the payload's _id and role with
\* JWT_SECRET; the new access token, or none when verify throws.  The users
\* collection is not read.  A refresh token lives 7 days, which do not pass
\* in the model.
refreshToken(token) ==
    IF token.secret = "REFRESH_TOKEN_SECRET"
    THEN Some(Cookie("accessToken", token, "JWT_SECRET"))
    ELSE Undefined

\* res.status(status).json({message})
MessageResponse(status, message) ==
    [status |-> status, error |-> Undefined, message |-> message]

\* controllers/authController.ts refreshAccessToken: the client whose login
\* was request r sends POST /auth/refresh without refreshToken cookie or with
\* a cookie that login set; the answer is 401, 200 with a new accessToken
\* cookie, or 403.
RefreshAccessToken(r, cookie) ==
    /\ reqs[r].pc = "done"
    /\ reqs[r].route = "POST /auth/login"
    /\ cookie \in {Undefined} \cup {Some(reqs[r].cookies[i]) : i \in DOMAIN reqs[r].cookies}
    /\ LET request == [IdleReq EXCEPT !.pc = "done",
                                      !.route = "POST /auth/refresh",
                                      !.input = cookie]
       IN
       IF ~IsDefined(cookie)
       THEN reqs' = [reqs EXCEPT ![r] =
               [request EXCEPT
                   !.sent = <<FailureResponse(401, "Refresh token missing")>>]]
       ELSE IF IsDefined(refreshToken(Get(cookie)))
       THEN reqs' = [reqs EXCEPT ![r] =
               [request EXCEPT
                   !.invoked = <<"refreshToken">>,
                   !.cookies = <<Get(refreshToken(Get(cookie)))>>,
                   !.sent = <<MessageResponse(200,
                                 "Access token refreshed successfully")>>]]
       ELSE reqs' = [reqs EXCEPT ![r] =
               [request EXCEPT
                   !.invoked = <<"refreshToken">>,
                   !.sent = <<FailureResponse(403, "Invalid refresh token")>>]]
    /\ UNCHANGED <<orderVars, products, users, sanitized>>

\* The cookies a client may send to POST /auth/refresh.
RefreshCookies ==
    {Undefined}
    \cup {Some(Cookie(name, user, secret)) :
            name \in {"accessToken", "refreshToken"},
            user \in {SeededAdmin, Customer},
            secret \in {"JWT_SECRET", "REFRESH_TOKEN_SECRET"}}

\* The logins of the customer and of the admin, and a login with a wrong
\* password.
BlockLoginBodies ==
    {LoginBody("cus@x.io", "secret-1"),
     LoginBody("cus@x.io", "secret-2"),
     LoginBody("admin@x.io", "Admin@123")}

\* The :id of the block and unblock requests: the customer and no user.
BlockIdParams == {Customer._id, 9}

NextBlock ==
    \/ \E r \in Reqs, body \in BlockLoginBodies : Login(r, body)
    \/ \E r \in Reqs, cookie \in RefreshCookies : RefreshAccessToken(r, cookie)
    \/ \E r \in Reqs, role \in Roles, id \in BlockIdParams : BlockUser(r, role, id)
    \/ \E r \in Reqs, role \in Roles, id \in BlockIdParams : UnblockUser(r, role, id)

\* Logins and token refreshes next to block and unblock requests.
SpecBlock == InitCatalog /\ [][NextBlock]_vars

\* Bodies of one order for the stored customer, for an ObjectId of no user
\* and for a string that is no ObjectId.
CustomerBodies ==
    {Body(customerId, <<Item("p1", "Widget", 2000, 10000, 100)>>,
          Some(1000), Undefined, Undefined) :
        customerId \in {"u7", "u1", "not-an-object-id"}}

NextCustomers ==
    \/ \E c \in Calls, body \in CustomerBodies : Request(c, body)
    \/ \E c \in Calls : Save(c)
    \/ \E c \in Calls : Respond(c)
    \/ Tick

\* Concurrent order requests next to a users collection with a customer.
SpecCustomers == InitCatalog /\ [][NextCustomers]_vars

\* =============================================================== claims
Stored == {orders[i] : i \in DOMAIN orders}
StoredBy(c) == {o \in Stored : o._id = c}
Started(c) == calls[c].pc # "idle"
Done(c) == calls[c].pc = "done"
Succeeded(c) ==
    \/ calls[c].pc = "saved"
    \/ Done(c) /\ Get(calls[c].res).status = 201
Failed(c) == Done(c) /\ Get(calls[c].res).status # 201

\* x (held at 1000) is y (held at 1000000) rounded to 2 decimals: a whole
\* number of cents, at most half a cent away, the half going up.
IsRound2Of(x, y) ==
    /\ x % 10 = 0
    /\ 1000 * x <= y + 5000
    /\ y + 5000 < 1000 * x + 10000

\* C1: every persisted order has
\* totalAmount = round2(subtotal + taxAmount - discountAmount) over its own
\* persisted (rounded) fields.
C1_TotalOfPersistedFields ==
    \A o \in Stored :
        IsRound2Of(o.totalAmount,
                   1000 * (o.subtotal + o.taxAmount - o.discountAmount))

\* C2: every item of every persisted order has
\* subtotal = round2(quantity * unitPrice).
C2_ItemSubtotalRounded ==
    \A o \in Stored : \A i \in DOMAIN o.items :
        IsRound2Of(o.items[i].subtotal,
                   o.items[i].quantity * o.items[i].unitPrice)

\* An order is stored with an item whose quantity * unitPrice is no whole
\* number of cents (1 x 0.125, stored as 0.13).
C2_Witness ==
    \E o \in Stored : \E i \in DOMAIN o.items :
        /\ (o.items[i].quantity * o.items[i].unitPrice) % 10000 # 0
        /\ o.items[i].subtotal = 130

\* The sum of a term over the first n items of an order.
RECURSIVE SumOver(_, _, _)
SumOver(term, seq, n) ==
    IF n = 0 THEN 0
    ELSE LET item == seq[n]
             value == CASE term = "subtotal" -> item.subtotal
                        [] term = "tax" -> item.subtotal * item.taxRate
                        [] term = "rawProduct" -> item.quantity * item.unitPrice
                        [] term = "roundedTax" ->
                             10 * ((item.subtotal * item.taxRate + 5000) \div 10000)
         IN  value + SumOver(term, seq, n - 1)

\* C3: the subtotal of every persisted order is the plain sum of its
\* persisted item subtotals.
C3_SubtotalIsSumOfItemSubtotals ==
    \A o \in Stored :
        o.subtotal = SumOver("subtotal", o.items, Len(o.items))

\* An order of several items is stored whose subtotal differs from the
\* rounded sum of the unrounded products (2 x (1 x 0.125): 0.26, not 0.25).
C3_Witness ==
    \E o \in Stored :
        /\ Len(o.items) >= 2
        /\ ~IsRound2Of(o.subtotal, SumOver("rawProduct", o.items, Len(o.items)))

\* C4: the taxAmount of every persisted order is the sum of
\* item subtotal * item taxRate, unrounded, rounded to 2 decimals once.
C4_TaxRoundedOnce ==
    \A o \in Stored :
        IsRound2Of(o.taxAmount, SumOver("tax", o.items, Len(o.items)))

\* An order is stored whose taxAmount is not the sum of its items' rounded
\* taxes (2 x (0.04 at 10%): 0.01, not 0.00 + 0.00).
C4_Witness ==
    \E o \in Stored :
        o.taxAmount # SumOver("roundedTax", o.items, Len(o.items))

\* The inputs C5 names: no item, or an item with a quantity below 1 or not
\* whole, a negative unitPrice, or a taxRate outside [0, 1].
C5_Refused(body) ==
    \/ body.items = <<>>
    \/ \E i \in DOMAIN body.items :
          \/ body.items[i].quantity < 1000
          \/ body.items[i].quantity % 1000 # 0
          \/ body.items[i].unitPrice < 0
          \/ body.items[i].taxRate < 0
          \/ body.items[i].taxRate > 1000

\* C5: a request with such an input ends with the validation failure
\* (400, "Validation failed"), nothing was priced for it and no order of it
\* is stored.
C5_InvalidInputRejected ==
    \A c \in Calls :
        Started(c) /\ C5_Refused(Get(calls[c].input)) =>
            /\ Done(c)
            /\ Get(calls[c].res).status = 400
            /\ Get(calls[c].res).message = "Validation failed"
            /\ calls[c].doc = Undefined
            /\ StoredBy(c) = {}

\* A request with a quantity of 1.5 has been answered.
C5_Witness ==
    \E c \in Calls :
        /\ Done(c)
        /\ \E i \in DOMAIN Get(calls[c].input).items :
              Get(calls[c].input).items[i].quantity = 1500

\* C6: every persisted order has status "registered".
C6_FreshOrderRegistered ==
    \A o \in Stored : o.status = "registered"

\* discountAmount exceeds subtotal + taxAmount for an accepted body.
DiscountExceeds(body) ==
    LET data == completeOrderData(validateCreateOrder(body))
        items == data.items
    IN  1000 * rawDiscountAmount(body) >
            1000 * rawSubtotal(items) + rawTaxAmount(items)

\* C7 as stated: a request whose discountAmount exceeds subtotal + taxAmount
\* succeeds and stores an order with a negative totalAmount.
C7_NegativeTotalStored ==
    \A c \in Calls :
        (/\ Done(c)
         /\ CreateOrderAccepts(Get(calls[c].input))
         /\ OrderDocValid_noTotalMin(Get(calls[c].doc))
         /\ DiscountExceeds(Get(calls[c].input)))
        => /\ Get(calls[c].res).status = 201
           /\ \E o \in StoredBy(c) : o.totalAmount < 0

\* C7 amended: the total is not clamped, and an order whose rounded
\* totalAmount is negative is refused at the write: the request is answered
\* 500 and nothing of it is stored; no stored order has a negative total.
C7_NegativeTotalRejected ==
    /\ \A o \in Stored : o.totalAmount >= 0
    /\ \A c \in Calls :
          (Done(c) /\ IsDefined(calls[c].doc)
                   /\ Get(calls[c].doc).totalAmount < 0)
          => /\ Get(calls[c].res).status = 500
             /\ StoredBy(c) = {}

\* A request with a discount above subtotal + tax was priced with a negative
\* total and has been answered.
C7_Witness ==
    \E c \in Calls :
        /\ Done(c) /\ IsDefined(calls[c].doc)
        /\ DiscountExceeds(Get(calls[c].input))
        /\ Get(calls[c].doc).totalAmount < 0

\* C8: no two persisted orders have the same orderNumber.
C8_OrderNumberUnique ==
    \A i, j \in DOMAIN orders :
        orders[i].orderNumber = orders[j].orderNumber => i = j

\* The generator returned a stored order's number a second time, and that
\* second document's insert was refused.
C8_Witness ==
    \E c \in Calls : \E o \in Stored :
        /\ Failed(c) /\ IsDefined(calls[c].doc)
        /\ OrderDocValid(Get(calls[c].doc))
        /\ o._id # c
        /\ o.orderNumber = Get(calls[c].doc).orderNumber

\* C9: two successful requests with identical input have stored two separate
\* orders with distinct orderNumbers, each request exactly one of its own,
\* and no stored orderNumber is the one the client sent.
C9_NotIdempotent ==
    /\ \A c \in Calls : Succeeded(c) => Cardinality(StoredBy(c)) = 1
    /\ \A c1, c2 \in Calls :
          (/\ c1 # c2 /\ Succeeded(c1) /\ Succeeded(c2)
           /\ calls[c1].input = calls[c2].input)
          => \E o1 \in StoredBy(c1), o2 \in StoredBy(c2) :
                /\ o1 # o2
                /\ o1.orderNumber # o2.orderNumber
    /\ \A c \in Calls : \A o \in StoredBy(c) :
          IsDefined(Get(calls[c].input).orderNumber)
          => o.orderNumber # Get(Get(calls[c].input).orderNumber)

\* Two requests with the same body, an orderNumber of the client's in it,
\* have both been answered 201.
C9_Witness ==
    \E c1, c2 \in Calls :
        /\ c1 # c2 /\ Done(c1) /\ Done(c2)
        /\ Get(calls[c1].res).status = 201 /\ Get(calls[c2].res).status = 201
        /\ calls[c1].input = calls[c2].input
        /\ IsDefined(Get(calls[c1].input).orderNumber)

OrderFields ==
    {"_id", "orderNumber", "customerId", "items", "subtotal", "taxAmount",
     "discountAmount", "totalAmount", "status", "paymentMethod", "registeredAt"}
ItemFields ==
    {"productId", "productName", "quantity", "unitPrice", "taxRate", "subtotal"}

\* The order is the whole document its request assembled.
FullyComputed(o) ==
    /\ DOMAIN o = OrderFields
    /\ Len(o.items) >= 1
    /\ \A i \in DOMAIN o.items : DOMAIN o.items[i] = ItemFields
    /\ o._id \in Calls
    /\ calls[o._id].doc = Some(o)
    /\ Succeeded(o._id)

\* C10: a step in which a request fails leaves the stored orders as they
\* were, a failed request has no order in the store, and every stored order
\* is fully computed.
C10_FailureLeavesStore ==
    /\ [][\A c \in Calls : (~Failed(c) /\ Failed(c)') => orders' = orders]_vars
    /\ [](\A c \in Calls : Failed(c) => StoredBy(c) = {})
    /\ [](\A o \in Stored : FullyComputed(o))

\* A request has failed at the write, on the orderNumber of an order that is
\* stored, and the store holds that order alone.
C10_Witness ==
    \E c \in Calls :
        /\ Failed(c) /\ IsDefined(calls[c].doc)
        /\ DuplicateKey(orders, Get(calls[c].doc))
        /\ Len(orders) = 1

\* C11: a step of any operation keeps every stored order where it is and as
\* it is: no field of a persisted order changes and no order is removed.
C11_OrdersImmutable ==
    [][/\ Len(orders') >= Len(orders)
       /\ \A i \in DOMAIN orders : orders'[i] = orders[i]]_vars

\* An order was stored, and after it a second request ran to its end and
\* stored another.
C11_Witness ==
    /\ Len(orders) = 2
    /\ \A c \in Calls : Done(c)

\* C12: a step of createOrder, whether it stores the order, refuses the
\* input or fails at the write, leaves the stockAmount of every product as
\* it was.
C12_StockUntouched ==
    [][calls' # calls =>
         \A id \in DOMAIN products :
            /\ id \in DOMAIN products'
            /\ products'[id].stockAmount = products[id].stockAmount]_vars

\* An order is stored for a product whose stock had been set to 2.
C12_Witness ==
    \E o \in Stored : \E i \in DOMAIN o.items :
        /\ o.items[i].productId \in DOMAIN products
        /\ products[o.items[i].productId].stockAmount = 2000

\* What a body says of the order apart from the fields the service assigns:
\* the body without orderNumber, subtotal, taxAmount and totalAmount and
\* without the subtotal of its items.
WithoutClientFields(body) ==
    [customerId |-> body.customerId,
     items |-> [i \in DOMAIN body.items |->
                  Item(body.items[i].productId, body.items[i].productName,
                       body.items[i].quantity, body.items[i].unitPrice,
                       body.items[i].taxRate)],
     discountAmount |-> body.discountAmount,
     status |-> body.status,
     paymentMethod |-> body.paymentMethod]

\* The pricing fields of a document.
PricingOf(doc) ==
    [itemSubtotals |-> [i \in DOMAIN doc.items |-> doc.items[i].subtotal],
     subtotal |-> doc.subtotal,
     taxAmount |-> doc.taxAmount,
     totalAmount |-> doc.totalAmount]

\* C13: two requests whose bodies differ only in a client-supplied
\* orderNumber, subtotal, taxAmount, totalAmount or item subtotal are both
\* priced or both refused, and when priced their documents have the same
\* item subtotals, subtotal, taxAmount and totalAmount.
C13_PricingIgnoresClientFields ==
    \A c1, c2 \in Calls :
        (/\ Started(c1) /\ Started(c2)
         /\ WithoutClientFields(Get(calls[c1].input))
               = WithoutClientFields(Get(calls[c2].input)))
        => /\ IsDefined(calls[c1].doc) <=> IsDefined(calls[c2].doc)
           /\ IsDefined(calls[c1].doc) /\ IsDefined(calls[c2].doc)
              => PricingOf(Get(calls[c1].doc)) = PricingOf(Get(calls[c2].doc))

\* Two orders are stored, one of a body without pricing fields and one of
\* the same body with totals and item subtotals of the client's.
C13_Witness ==
    \E c1, c2 \in Calls :
        /\ StoredBy(c1) # {} /\ StoredBy(c2) # {}
        /\ ~IsDefined(Get(calls[c1].input).totalAmount)
        /\ IsDefined(Get(calls[c2].input).totalAmount)
        /\ "subtotal" \in DOMAIN Get(calls[c2].input).items[1]
        /\ WithoutClientFields(Get(calls[c1].input))
              = WithoutClientFields(Get(calls[c2].input))

\* C14: every persisted order has at least one item, and its items are the
\* items of its request's input, as many and in the same order, each with
\* the productId, quantity, unitPrice and taxRate of the input and with the
\* input's keys and subtotal and no other key.
C14_ItemsKept ==
    \A o \in Stored :
        LET input == Get(calls[o._id].input).items IN
        /\ Len(o.items) >= 1
        /\ Len(o.items) = Len(input)
        /\ \A i \in DOMAIN o.items :
              /\ o.items[i].productId = input[i].productId
              /\ o.items[i].quantity = input[i].quantity
              /\ o.items[i].unitPrice = input[i].unitPrice
              /\ o.items[i].taxRate = input[i].taxRate
              /\ DOMAIN o.items[i] = DOMAIN input[i] \cup {"subtotal"}

\* An order of two different products is stored.
C14_Witness ==
    \E o \in Stored :
        /\ Len(o.items) = 2
        /\ o.items[1].productId # o.items[2].productId

\* C15: a persisted order whose input has neither discountAmount nor
\* paymentMethod has discountAmount 0, totalAmount = round2(subtotal +
\* taxAmount) and paymentMethod "invoice".
C15_DefaultsApplied ==
    \A o \in Stored :
        LET input == Get(calls[o._id].input) IN
        (~IsDefined(input.discountAmount) /\ ~IsDefined(input.paymentMethod))
        => /\ o.discountAmount = 0
           /\ IsRound2Of(o.totalAmount, 1000 * (o.subtotal + o.taxAmount))
           /\ o.paymentMethod = "invoice"

\* An order with tax is stored whose input had no discountAmount and no
\* paymentMethod.
C15_Witness ==
    \E o \in Stored :
        /\ ~IsDefined(Get(calls[o._id].input).discountAmount)
        /\ ~IsDefined(Get(calls[o._id].input).paymentMethod)
        /\ o.taxAmount > 0

\* The response of a finished request is the one the controller owes it:
\* 201 with success true, the message and the stored order as data when the
\* request stored an order, otherwise a status outside 200..299 with success
\* false and no data.
ResponseOwed(c) ==
    LET response == Get(calls[c].res) IN
    IF StoredBy(c) # {}
    THEN /\ response.status = 201
         /\ response.success = TRUE
         /\ response.message = "Order created successfully"
         /\ IsDefined(response.data)
         /\ StoredBy(c) = {Get(response.data)}
    ELSE /\ response.status \notin 200..299
         /\ response.success = FALSE
         /\ response.data = Undefined

\* C16: a request has a response exactly when its handler has finished, a
\* response once sent is never followed by another, and the response is 201
\* with the order exactly when the service returned a persisted order and an
\* error without order data otherwise.
C16_OneResponse ==
    /\ [](\A c \in Calls : Done(c) <=> IsDefined(calls[c].res))
    /\ [][\A c \in Calls :
            IsDefined(calls[c].res) => calls'[c].res = calls[c].res]_vars
    /\ [](\A c \in Calls : Done(c) => ResponseOwed(c))

\* One request has been answered 201 and another, refused by validation,
\* 400.
C16_Witness ==
    \E c1, c2 \in Calls :
        /\ Done(c1) /\ Get(calls[c1].res).status = 201
        /\ Done(c2) /\ Get(calls[c2].res).status = 400

\* C17: sanitizeUser returns {} for null or undefined; for a user it
\* returns an object without password, resetPasswordToken and
\* resetPasswordExpires that has every other key of the user with the
\* user's value, and it leaves the user as it was.
C17_SanitizeUser ==
    IsDefined(sanitized) =>
        LET call == Get(sanitized) IN
        /\ call.after = call.before
        /\ IF ~IsDefined(call.before)
           THEN DOMAIN call.returned = {}
           ELSE LET fields == Get(call.before).fields IN
                /\ DOMAIN call.returned \cap SecretKeys = {}
                /\ \A key \in DOMAIN fields \ SecretKeys :
                      /\ key \in DOMAIN call.returned
                      /\ call.returned[key] = fields[key]
                /\ DOMAIN call.returned \subseteq DOMAIN fields

\* sanitizeUser was called with a user that has the three secret keys and
\* returned an object of the eight other keys.
C17_Witness ==
    /\ IsDefined(sanitized)
    /\ IsDefined(Get(sanitized).before)
    /\ SecretKeys \subseteq DOMAIN Get(Get(sanitized).before).fields
    /\ Cardinality(DOMAIN Get(sanitized).returned) = 8

\* The users a request has inserted.
UsersOf(r) == {users[i] : i \in {j \in DOMAIN users : users[j]._id = r}}

RegisterDone(r) ==
    reqs[r].pc = "done" /\ reqs[r].route = "POST /auth/register"

\* The body is valid data of a user: an email, a password of 6 characters
\* or more, a role, and names that are not blank.
ValidUserData(body) ==
    /\ IsEmail(body.email)
    /\ StringLength(body.password) >= 6
    /\ body.role \in Roles
    /\ body.firstName \notin {"", " "}
    /\ body.lastName \notin {"", " "}

\* The email of the body, whatever its case, is the email of a user that
\* another request or the seeder inserted.
RegisteredByOther(r, body) ==
    \E i \in DOMAIN users :
        users[i].email = ToLowerCase(body.email) /\ users[i]._id # r

\* C18: a finished POST /auth/register has sent one response.  With valid
\* data and an email no other user has, it has inserted exactly one user and
\* the response is 201 with that user's data without the password; with an
\* email that is registered (or with invalid data) the response is an error
\* and the request has inserted no user.  The collection holds the seeded
\* admin and one user per successful request.
C18_Register ==
    /\ \A r \in Reqs : RegisterDone(r) =>
          LET body == Get(reqs[r].input)
              response == reqs[r].sent[1]
          IN  /\ Len(reqs[r].sent) = 1
              /\ IF ValidUserData(body) /\ ~RegisteredByOther(r, body)
                 THEN /\ response.status = 201
                      /\ Cardinality(UsersOf(r)) = 1
                      /\ IsDefined(response.data)
                      /\ "password" \notin DOMAIN Get(response.data)
                      /\ Get(response.data).email = ToLowerCase(body.email)
                      /\ \A user \in UsersOf(r) :
                            \A key \in DOMAIN user \ {"password"} :
                                Get(response.data)[key] = user[key]
                 ELSE /\ response.status \notin 200..299
                      /\ IsDefined(response.error)
                      /\ response.data = Undefined
                      /\ UsersOf(r) = {}
    /\ Len(users) = 1 + Cardinality({r \in Reqs : UsersOf(r) # {}})

\* A user was registered and answered 201, and a second registration with
\* her email in capitals was refused.
C18_Witness ==
    \E r1, r2 \in Reqs :
        /\ RegisterDone(r1) /\ reqs[r1].sent[1].status = 201
        /\ RegisterDone(r2) /\ reqs[r2].sent[1].status = 400
        /\ Get(reqs[r2].input).email = "ANN@X.IO"
        /\ ValidUserData(Get(reqs[r2].input))

\* The user the body's credentials belong to: a stored user with the
\* body's email, whatever its case, who is not blocked and whose password
\* hash was made of the body's password.
MatchingUsers(body) ==
    {user \in {users[i] : i \in DOMAIN users} :
        /\ user.email = ToLowerCase(body.email)
        /\ ~user.isBlocked
        /\ BcryptCompare(body.password, user.password)}

\* C19: the step that handles POST /auth/login answers 200 with the user's
\* data without the password and sets exactly the cookies accessToken and
\* refreshToken when the email is that of a stored user who is not blocked
\* and the password matches; in every other case it answers 401 and sets no
\* cookie.  Nothing is sent or set for the request afterwards.
C19_Login ==
    /\ [][\A r \in Reqs :
            (reqs[r].pc = "idle" /\ reqs'[r].route = "POST /auth/login") =>
               LET body == Get(reqs'[r].input)
                   response == reqs'[r].sent[1]
                   cookies == reqs'[r].cookies
               IN  /\ reqs'[r].pc = "done"
                   /\ Len(reqs'[r].sent) = 1
                   /\ IF MatchingUsers(body) # {}
                      THEN /\ response.status = 200
                           /\ IsDefined(response.data)
                           /\ "password" \notin DOMAIN Get(response.data)
                           /\ \E user \in MatchingUsers(body) :
                                 Get(response.data)._id = user._id
                           /\ Len(cookies) = 2
                           /\ cookies[1].name = "accessToken"
                           /\ cookies[2].name = "refreshToken"
                      ELSE /\ response.status = 401
                           /\ response.data = Undefined
                           /\ cookies = <<>>]_vars
    /\ [][\A r \in Reqs :
            reqs[r].pc = "done" => reqs'[r] = reqs[r]]_vars

\* A user who registered has logged in with her email in capitals and has
\* the two cookies.
C19_Witness ==
    \E r \in Reqs :
        /\ reqs[r].pc = "done" /\ reqs[r].route = "POST /auth/login"
        /\ reqs[r].sent[1].status = 200
        /\ Len(reqs[r].cookies) = 2
        /\ Get(reqs[r].sent[1].data).email = "ann@x.io"
        /\ Get(reqs[r].input).email = "ANN@X.IO"

AdminRoutes ==
    {"GET /users", "GET /users/:id", "POST /users/employees",
     "PATCH /users/:id/block", "PATCH /users/:id/unblock", "DELETE /users/:id"}

\* C20: a request of an admin-only user route by a user who is no admin is
\* answered 403, once, and invokes no operation of the user service.
C20_NonAdminForbidden ==
    \A r \in Reqs :
        (reqs[r].route \in AdminRoutes /\ reqs[r].role # "admin")
        => /\ reqs[r].pc = "done"
           /\ reqs[r].sent = <<Forbidden>>
           /\ reqs[r].invoked = <<>>


\* The products a public read of the catalogue returned to its caller.
PublicRoutes == {"GET /products", "GET /products/:id"}
Returned(r) ==
    IF reqs[r].route \in PublicRoutes /\ reqs[r].sent # <<>>
       /\ reqs[r].sent[1].status = 200
    THEN IF reqs[r].route = "GET /products/:id"
         THEN {Get(reqs[r].sent[1].data)}
         ELSE Get(reqs[r].sent[1].data)
    ELSE {}

\* C21: GET /products and GET /products/:id return published products only;
\* a draft is never in the answer of a public read.
C21_PublicReadsPublished ==
    \A r \in Reqs : \A p \in Returned(r) : p.status = "published"

\* C22: no DELETE /products/:id by an employee or a customer is answered
\* with success, and none marks a product deleted.
C22_OnlyAdminDeletes ==
    [][\A r \in Reqs :
          (reqs[r].pc = "idle" /\ reqs'[r].route = "DELETE /products/:id"
           /\ reqs'[r].role # "admin")
          => /\ products' = products
             /\ reqs'[r].sent[1].status # 200]_vars

\* C29: no two products that are not deleted have the same name.
C29_NamesUnique ==
    \A p, q \in NotDeleted(products) : p.name = q.name => p._id = q._id


\* The insert attempt of a request is its step out of "saving": the one
\* order.save() of the repository.
InsertAttempt(c) == calls[c].pc = "saving" /\ calls'[c].pc # "saving"

\* C23: a createOrder call attempts at most one insert: a request whose
\* body fails validation ends without constructing a document, a request
\* whose body passes constructs one document with one orderNumber and goes on
\* to one save; after the save, failed or not, the request never saves again
\* and its document, orderNumber included, stays as it was generated.
C23_OneInsertAttempt ==
    /\ [][\A c \in Calls :
            calls[c].pc = "idle" /\ calls'[c].pc # "idle"
            => IF CreateOrderAccepts(Get(calls'[c].input))
               THEN calls'[c].pc = "saving" /\ IsDefined(calls'[c].doc)
               ELSE calls'[c].pc = "done" /\ ~IsDefined(calls'[c].doc)]_vars
    /\ [][\A c \in Calls :
            calls[c].pc # "idle"
            => /\ calls'[c].doc = calls[c].doc
               /\ calls[c].pc # "saving" => calls'[c].pc # "saving"
               /\ StoredBy(c)' # StoredBy(c) => InsertAttempt(c)]_vars
    /\ [](\A c \in Calls : Cardinality(StoredBy(c)) <= 1)

\* A request's one insert was refused for the orderNumber of a stored order
\* of another request; the request is finished with that orderNumber and
\* without a stored order.
C23_Witness ==
    \E c, d \in Calls :
        /\ c # d /\ Done(c) /\ IsDefined(calls[c].doc)
        /\ StoredBy(c) = {}
        /\ \E o \in StoredBy(d) : o.orderNumber = Get(calls[c].doc).orderNumber
        /\ Get(calls[c].res).status = 500


\* The fields createOrder computes, of a document.
PricingFields(doc) ==
    [itemSubtotals |-> [i \in DOMAIN doc.items |-> doc.items[i].subtotal],
     subtotal |-> doc.subtotal,
     taxAmount |-> doc.taxAmount,
     discountAmount |-> doc.discountAmount,
     totalAmount |-> doc.totalAmount]

\* What a call prices from: the items and the discountAmount of its body.
PricedFrom(c) ==
    [items |-> Get(calls[c].input).items,
     discountAmount |-> rawDiscountAmount(Get(calls[c].input))]

\* The pricing of a call that runs alone on an empty store with these items
\* and this discountAmount.
IsolatedPricing(items, discountAmount) ==
    PricingFields(completeOrderData(validateCreateOrder(
        Body("u1", items, discountAmount, Undefined, Undefined))))

\* C24: under every interleaving the pricing fields of a persisted order are
\* those its call computes alone from its items and discountAmount: two
\* persisted orders of calls with the same items and discountAmount have the
\* same pricing fields, whatever their time, orderNumber, customer and
\* status and whatever was stored before them.
C24_PricingOfOwnInput ==
    \A c \in Calls : \A o \in StoredBy(c) :
        /\ PricingFields(o) = IsolatedPricing(Get(calls[c].input).items,
                                              Get(calls[c].input).discountAmount)
        /\ \A d \in Calls : \A p \in StoredBy(d) :
              PricedFrom(c) = PricedFrom(d) => PricingFields(o) = PricingFields(p)

\* Two calls with the same items and discountAmount have stored their
\* orders, the second one constructed at a later time than the first and
\* stored after it.
C24_Witness ==
    \E c, d \in Calls :
        /\ c # d /\ Started(c) /\ Started(d)
        /\ PricedFrom(c) = PricedFrom(d)
        /\ \E i, j \in DOMAIN orders :
              /\ i < j /\ orders[i]._id = c /\ orders[j]._id = d
              /\ orders[i].registeredAt < orders[j].registeredAt


\* The request failed at the repository's save: it has a document, is
\* finished and has no stored order.
FailedAtSave(c) == Done(c) /\ IsDefined(calls[c].doc) /\ StoredBy(c) = {}

\* The body of the generic answer of handleServiceError.
InternalServerError ==
    [status |-> 500, success |-> FALSE, message |-> "Internal server error",
     data |-> Undefined]

\* C25: a createOrder request that fails at the save, for the orderNumber of
\* a stored order or for a validator of the schema, is answered 500 with the
\* message "Internal server error" and nothing of the error: the answers of
\* any two such requests are equal.
C25_StorageFailureOpaque ==
    /\ \A c \in Calls : FailedAtSave(c) => Get(calls[c].res) = InternalServerError
    /\ \A c, d \in Calls :
          FailedAtSave(c) /\ FailedAtSave(d) => calls[c].res = calls[d].res

\* A request was refused at the save for an orderNumber that is stored, and
\* is answered with the generic body.
C25_Witness ==
    \E c \in Calls :
        /\ FailedAtSave(c)
        /\ OrderDocValid(Get(calls[c].doc))
        /\ \E o \in Stored : o.orderNumber = Get(calls[c].doc).orderNumber
        /\ Get(calls[c].res).message = "Internal server error"


\* The customerId of the document names a stored user.
CustomerExists(doc) ==
    \E i \in DOMAIN users : users[i]._id = CustomerUserId(doc.customerId)

\* The document without what names its request and its customer.
WithoutIdentity(doc) ==
    [key \in DOMAIN doc \ {"_id", "customerId", "orderNumber", "registeredAt"} |->
        doc[key]]

\* C26: createOrder does not look the customer up: a request whose
\* customerId is an ObjectId is priced and saved whether a user of that id
\* exists or not, its order differs from that of an existing customer in
\* nothing but the identity fields, and no step of an order request changes
\* a user record.
C26_UsersNotConsulted ==
    /\ [][users' = users]_vars
    /\ [](\A c \in Calls :
            Started(c) =>
               (IsDefined(calls[c].doc)
                  <=> ObjectIdIsValid(Get(calls[c].input).customerId)))
    /\ [](\A c, d \in Calls :
            IsDefined(calls[c].doc) /\ IsDefined(calls[d].doc)
            => WithoutIdentity(Get(calls[c].doc)) = WithoutIdentity(Get(calls[d].doc)))
    /\ [][\A c \in Calls :
            calls[c].pc = "saving" /\ calls'[c].pc # "saving"
            => (StoredBy(c)' # {} <=> ~DuplicateKey(orders, Get(calls[c].doc)))]_vars

\* An order of a customerId that names no user and an order of the stored
\* customer are both persisted, and the customer's orderCount is 0.
C26_Witness ==
    \E o, p \in Stored :
        /\ ~CustomerExists(o) /\ CustomerExists(p)
        /\ \A i \in DOMAIN users : users[i].orderCount = 0


\* The request did not pass authenticateToken: it came without the cookie or
\* with a token jwt.verify refuses at the time the middleware ran.
Refused(c) ==
    /\ reqs[c].route = "POST /orders"
    /\ reqs[c].pc = "done"

\* C27: createOrder runs only behind authenticateToken: a request without
\* the accessToken cookie is answered 401 and one whose token is signed with
\* another secret or is expired 403; for both the handler is not called, the
\* order service does nothing and no order of the request is persisted; the
\* handler starts only for a request whose token is signed with JWT_SECRET.
C27_OrdersNeedToken ==
    /\ [](\A c \in Calls :
            Refused(c) =>
               /\ reqs[c].invoked = <<>>
               /\ calls[c] = Idle
               /\ StoredBy(c) = {}
               /\ reqs[c].sent =
                    IF ~IsDefined(reqs[c].cookies[1])
                    THEN <<AuthFailure(401, "Unauthorized - No token provided")>>
                    ELSE <<AuthFailure(403, "Unauthorized - Invalid token")>>)
    /\ [](\A c \in Calls :
            Started(c) =>
               /\ reqs[c].pc = "next"
               /\ IsDefined(reqs[c].cookies[1])
               /\ Get(reqs[c].cookies[1]).secret = "JWT_SECRET"
               /\ Get(reqs[c].cookies[1]).exp > 0)
    /\ [][\A c \in Calls :
            reqs[c].pc = "idle" /\ reqs'[c].pc # "idle"
            => (reqs'[c].pc = "next"
                  <=> /\ IsDefined(reqs'[c].cookies[1])
                      /\ Get(reqs'[c].cookies[1]).secret = "JWT_SECRET"
                      /\ Get(reqs'[c].cookies[1]).exp > now)]_vars

\* A request with a token that had expired was answered 403 while another,
\* with a token in force, had its order persisted.
C27_Witness ==
    \E c, d \in Calls :
        /\ Refused(c) /\ IsDefined(reqs[c].cookies[1])
        /\ Get(reqs[c].cookies[1]).secret = "JWT_SECRET"
        /\ Get(reqs[c].cookies[1]).exp = 1
        /\ reqs[c].sent[1].status = 403
        /\ StoredBy(d) # {} /\ reqs[d].pc = "next"


\* The request registered a user: POST /auth/register answered 201.
Registered(r) ==
    /\ reqs[r].route = "POST /auth/register"
    /\ reqs[r].pc = "done"
    /\ reqs[r].sent[1].status = 201

\* The email a register request is about, as the service looks it up.
EmailOf(r) == ToLowerCase(Get(reqs[r].input).email)

\* C28: under every interleaving of the lookups and inserts of concurrent
\* registrations no two stored users have the same email, and of the
\* requests for one email at most one is answered with success.
C28_OneUserPerEmail ==
    /\ \A i, j \in DOMAIN users : users[i].email = users[j].email => i = j
    /\ \A r1, r2 \in Reqs :
          Registered(r1) /\ Registered(r2) /\ EmailOf(r1) = EmailOf(r2) => r1 = r2

\* Two registrations of one email both passed the lookup; the insert of one
\* succeeded and the insert of the other was refused by the unique index.
C28_Witness ==
    \E r1, r2 \in Reqs :
        /\ Registered(r1)
        /\ reqs[r2].route = "POST /auth/register" /\ reqs[r2].pc = "done"
        /\ IsDefined(reqs[r2].doc)
        /\ reqs[r2].sent = <<FailureResponse(400, "E11000 duplicate key")>>
        /\ EmailOf(r1) = EmailOf(r2)
        /\ Cardinality({i \in DOMAIN users : users[i].email = EmailOf(r1)}) = 1


\* The user of that _id is stored and blocked.
Blocked(collection, id) ==
    \E i \in DOMAIN collection : collection[i]._id = id /\ collection[i].isBlocked

\* C30: while a user is blocked no operation issues an access token for the
\* user: a login of the blocked user fails, and so does a refresh with a
\* refresh token that was issued before the block.
C30_NoTokenWhileBlocked ==
    [][\A r \in Reqs :
          reqs'[r] # reqs[r]
          => \A i \in DOMAIN reqs'[r].cookies :
                reqs'[r].cookies[i].name = "accessToken"
                => ~Blocked(users, reqs'[r].cookies[i]._id)]_vars

=============================================================================
